---- MODULE Spec2Model ----
(***************************************************************************)
(* A model of the synset package: the in-memory index over a WordNet       *)
(* lexicon (buildIndex), the query operators over that index, and the      *)
(* SQLite exporter (exportToSQLite), and the loader that finds the WordNet  *)
(* release to use and keeps it in a cache directory.                       *)
(*                                                                         *)
(* Strings that are case-converted or sorted (written forms, query words)  *)
(* are sequences of UTF-16 code units, as in JavaScript: 73 is "I", 105 is *)
(* "i", 305 is the dotless "i" (U+0131).  Identifiers, relation types and  *)
(* parts of speech are only compared for equality and are plain strings.   *)
(* A JavaScript Map is a function whose DOMAIN is the set of its keys.     *)
(***************************************************************************)
EXTENDS Naturals, Sequences, FiniteSets, TLC

VARIABLES
    lexicon,    \* the Lexicon handed over by the loader (never written)
    pc,         \* where the caller is: "loaded", "indexed", "answered",
                \* or the export stage to run, "exported", "failed",
                \* "aborted"; for the loader "idle", "versioned", "returned"
    index,      \* the WordNetIndex returned by buildIndex
    call,       \* the last query made: its operator and arguments
    result,     \* what that query returned
    options,    \* ExportOptions: overwrite, and whether onProgress is given
    file,       \* the destination path: whether it exists, its tables
    work,       \* exportToSQLite's locals that live across its stages
    events,     \* the progress events delivered to onProgress, in order
    error,      \* the Error thrown to the caller, "" when none
    cacheDir,   \* the loader's cache directory: its entries, or Missing
    releases,   \* the versions whose download URL answers a request
    currentYear, \* new Date().getFullYear()
    earlier     \* the index the caller built before the present one

loader == <<cacheDir, releases, currentYear>>

vars == <<lexicon, pc, index, call, result, options, file, work, events, error,
          cacheDir, releases, currentYear, earlier>>

----------------------------------------------------------------------------
(* Sequences, Maps *)

Range(s) == {s[i] : i \in DOMAIN s}

Map(f(_), s) == [i \in 1..Len(s) |-> f(s[i])]

RECURSIVE Flatten(_)
Flatten(ss) == IF ss = <<>> THEN <<>> ELSE Head(ss) \o Flatten(Tail(ss))

RECURSIVE SetAddAll(_, _)
\* a Set in insertion order: `for (const x of xs) set.add(x)`
SetAddAll(set, xs) ==
    IF xs = <<>> THEN set
    ELSE SetAddAll(IF Head(xs) \in Range(set) THEN set
                   ELSE Append(set, Head(xs)),
                   Tail(xs))

EmptyMap == <<>>

MapHas(m, k) == k \in DOMAIN m

MapSet(m, k, v) == [x \in (DOMAIN m) \cup {k} |-> IF x = k THEN v ELSE m[x]]

\* `m.get(k) || []`
MapGetOrEmpty(m, k) == IF MapHas(m, k) THEN m[k] ELSE <<>>

----------------------------------------------------------------------------
(* String.prototype.toLowerCase on UTF-16 code units: A-Z map to a-z, and  *)
(* the other code units of the model's alphabet (a-z, U+0131) are already  *)
(* lower case.                                                             *)

toLowerCaseUnit(c) == IF c \in 65..90 THEN c + 32 ELSE c

toLowerCase(s) == [i \in 1..Len(s) |-> toLowerCaseUnit(s[i])]

----------------------------------------------------------------------------
(* buildIndex *)

\* entry.lemmas[0]?.writtenForm is defined
HasLemma(entry) == Len(entry.lemmas) > 0

\* `const word = entry.lemmas[0]?.writtenForm.toLowerCase(); if (word)`:
\* undefined and the empty string are both falsy
HasWord(entry) ==
    HasLemma(entry) /\ toLowerCase(entry.lemmas[1].writtenForm) # <<>>

WordOf(entry) == toLowerCase(entry.lemmas[1].writtenForm)

RECURSIVE IndexSynsets(_, _)
IndexSynsets(synsets, ss) ==
    IF ss = <<>> THEN synsets
    ELSE IndexSynsets(MapSet(synsets, Head(ss).id, Head(ss)), Tail(ss))

\* IndexSense without the `includes` test
IndexSenseNoIncludes(idx, word, sense) ==
    LET withSense ==
            [idx EXCEPT
                !.senses = MapSet(@, sense.id, sense),
                !.sensesByWord =
                    MapSet(@, word, Append(MapGetOrEmpty(@, word), sense))]
        existingSynsets == MapGetOrEmpty(idx.synsetsByWord, word)
    IN  IF MapHas(idx.synsets, sense.synset)
        THEN [withSense EXCEPT
                !.synsetsByWord =
                    MapSet(@, word,
                           Append(existingSynsets, idx.synsets[sense.synset]))]
        ELSE withSense

\* the body of `for (const sense of entry.senses)`
IndexSense(idx, word, sense) ==
    LET withSense ==
            [idx EXCEPT
                !.senses = MapSet(@, sense.id, sense),
                !.sensesByWord =
                    MapSet(@, word, Append(MapGetOrEmpty(@, word), sense))]
        existingSynsets == MapGetOrEmpty(idx.synsetsByWord, word)
    IN  IF MapHas(idx.synsets, sense.synset)
            /\ idx.synsets[sense.synset] \notin Range(existingSynsets)
        THEN [withSense EXCEPT
                !.synsetsByWord =
                    MapSet(@, word,
                           Append(existingSynsets, idx.synsets[sense.synset]))]
        ELSE withSense

RECURSIVE IndexSenses(_, _, _)
IndexSenses(idx, word, senses) ==
    IF senses = <<>> THEN idx
    ELSE IndexSenses(IndexSense(idx, word, Head(senses)), word, Tail(senses))

\* IndexEntry with the loop over the senses moved out of `if (word)`: the
\* senses of an entry without a word are filed under the empty word
IndexEntrySensesOutsideIf(idx, entry) ==
    LET withEntry == [idx EXCEPT !.entries = MapSet(@, entry.id, entry)]
    IN  IF HasWord(entry)
        THEN IndexSenses(
                [withEntry EXCEPT
                    !.byWord =
                        MapSet(@, WordOf(entry),
                               Append(MapGetOrEmpty(@, WordOf(entry)), entry))],
                WordOf(entry), entry.senses)
        ELSE IndexSenses(withEntry, <<>>, entry.senses)

\* IndexEntry without `if (word)`: an entry without a word is filed under
\* the empty word
IndexEntryWithoutIf(idx, entry) ==
    LET withEntry == [idx EXCEPT !.entries = MapSet(@, entry.id, entry)]
        word == IF HasWord(entry) THEN WordOf(entry) ELSE <<>>
    IN  IndexSenses(
            [withEntry EXCEPT
                !.byWord =
                    MapSet(@, word, Append(MapGetOrEmpty(@, word), entry))],
            word, entry.senses)

\* IndexEntry with `existing.unshift(entry)`: the newest entry first
IndexEntryNewestFirst(idx, entry) ==
    LET withEntry == [idx EXCEPT !.entries = MapSet(@, entry.id, entry)]
    IN  IF HasWord(entry)
        THEN IndexSenses(
                [withEntry EXCEPT
                    !.byWord =
                        MapSet(@, WordOf(entry),
                               <<entry>> \o MapGetOrEmpty(@, WordOf(entry)))],
                WordOf(entry), entry.senses)
        ELSE withEntry

\* the body of `for (const entry of lexicon.lexicalEntries)`
IndexEntry(idx, entry) ==
    LET withEntry == [idx EXCEPT !.entries = MapSet(@, entry.id, entry)]
    IN  IF HasWord(entry)
        THEN IndexSenses(
                [withEntry EXCEPT
                    !.byWord =
                        MapSet(@, WordOf(entry),
                               Append(MapGetOrEmpty(@, WordOf(entry)), entry))],
                WordOf(entry), entry.senses)
        ELSE withEntry

RECURSIVE IndexEntries(_, _)
IndexEntries(idx, es) ==
    IF es = <<>> THEN idx
    ELSE IndexEntries(IndexEntry(idx, Head(es)), Tail(es))

buildIndex(lex) ==
    IndexEntries(
        [synsets |-> IndexSynsets(EmptyMap, lex.synsets),
         senses |-> EmptyMap,
         entries |-> EmptyMap,
         byWord |-> EmptyMap,
         sensesByWord |-> EmptyMap,
         synsetsByWord |-> EmptyMap,
         lexicon |-> lex],
        lex.lexicalEntries)

----------------------------------------------------------------------------
(* Query operators.  `T | undefined` is a sequence of at most one T.       *)

Undefined == <<>>

Defined(v) == <<v>>

MapGet(m, k) == IF MapHas(m, k) THEN Defined(m[k]) ELSE Undefined

getSynset(idx, id) == MapGet(idx.synsets, id)

getSense(idx, id) == MapGet(idx.senses, id)

getLexicalEntry(idx, id) == MapGet(idx.entries, id)

\* findWord without `.toLowerCase()`
findWordAsSpelled(idx, word) == MapGetOrEmpty(idx.byWord, word)

findWord(idx, word) == MapGetOrEmpty(idx.byWord, toLowerCase(word))

findSenses(idx, word) == MapGetOrEmpty(idx.sensesByWord, toLowerCase(word))

findSynsets(idx, word) == MapGetOrEmpty(idx.synsetsByWord, toLowerCase(word))

DefinitionsOf(synset) ==
    [i \in 1..Len(synset.definitions) |->
        [text |-> synset.definitions[i].inner,
         synset |-> synset,
         partOfSpeech |-> synset.partOfSpeech]]

getDefinitions(idx, word) ==
    Flatten(Map(DefinitionsOf, findSynsets(idx, word)))

\* getRelated without the filter on the relation type
getRelatedAnyType(idx, synset, relType) ==
    LET Target(r) == MapGet(idx.synsets, r.target)
    IN  Flatten(Map(Target, synset.synsetRelations))

getRelated(idx, synset, relType) ==
    LET IsType(r) == r.relType = relType
        Target(r) == MapGet(idx.synsets, r.target)
    IN  Flatten(Map(Target, SelectSeq(synset.synsetRelations, IsType)))

getHypernyms(idx, word) ==
    LET Hyper(s) == getRelated(idx, s, "hypernym")
    IN  Flatten(Map(Hyper, findSynsets(idx, word)))

getHyponyms(idx, word) ==
    LET Hypo(s) == getRelated(idx, s, "hyponym")
    IN  Flatten(Map(Hypo, findSynsets(idx, word)))

\* SynonymMember comparing the lemma as written, without `.toLowerCase()`
SynonymMemberAsWritten(idx, lowerWord, synset, acc, memberId) ==
    IF ~MapHas(idx.entries, memberId) THEN acc
    ELSE LET entry == idx.entries[memberId]
         IN  IF HasLemma(entry)
                /\ entry.lemmas[1].writtenForm # <<>>
                /\ entry.lemmas[1].writtenForm # lowerWord
                /\ entry.lemmas[1].writtenForm \notin acc.seen
             THEN [seen |-> acc.seen \cup {entry.lemmas[1].writtenForm},
                   results |->
                       Append(acc.results,
                              [word |-> entry.lemmas[1].writtenForm,
                               entry |-> entry,
                               synset |-> synset])]
             ELSE acc

\* the body of `for (const memberId of synset.members)`; acc is
\* [seen, results]
SynonymMember(idx, lowerWord, synset, acc, memberId) ==
    IF ~MapHas(idx.entries, memberId) THEN acc
    ELSE LET entry == idx.entries[memberId]
         IN  IF HasLemma(entry)
                /\ entry.lemmas[1].writtenForm # <<>>
                /\ toLowerCase(entry.lemmas[1].writtenForm) # lowerWord
                /\ entry.lemmas[1].writtenForm \notin acc.seen
             THEN [seen |-> acc.seen \cup {entry.lemmas[1].writtenForm},
                   results |->
                       Append(acc.results,
                              [word |-> entry.lemmas[1].writtenForm,
                               entry |-> entry,
                               synset |-> synset])]
             ELSE acc

RECURSIVE SynonymMembers(_, _, _, _, _)
SynonymMembers(idx, lowerWord, synset, acc, members) ==
    IF members = <<>> THEN acc
    ELSE SynonymMembers(idx, lowerWord, synset,
            SynonymMember(idx, lowerWord, synset, acc, Head(members)),
            Tail(members))

RECURSIVE SynonymSynsetsLastFirst(_, _, _, _)
\* SynonymSynsets walking the synsets from the last to the first
SynonymSynsetsLastFirst(idx, lowerWord, acc, synsets) ==
    IF synsets = <<>> THEN acc
    ELSE LET last == synsets[Len(synsets)]
         IN  SynonymSynsetsLastFirst(idx, lowerWord,
                SynonymMembers(idx, lowerWord, last, acc, last.members),
                SubSeq(synsets, 1, Len(synsets) - 1))

RECURSIVE SynonymSynsets(_, _, _, _)
SynonymSynsets(idx, lowerWord, acc, synsets) ==
    IF synsets = <<>> THEN acc
    ELSE SynonymSynsets(idx, lowerWord,
            SynonymMembers(idx, lowerWord, Head(synsets), acc,
                           Head(synsets).members),
            Tail(synsets))

getSynonyms(idx, word) ==
    SynonymSynsets(idx, toLowerCase(word),
                   [seen |-> {}, results |-> <<>>],
                   findSynsets(idx, word)).results

\* getSynsetWords keeping each written form once
getSynsetWordsOnce(idx, synset) ==
    LET EntryOf(id) == MapGet(idx.entries, id)
        LemmaOf(e) == IF HasLemma(e) THEN Defined(e.lemmas[1].writtenForm)
                      ELSE Undefined
    IN  SetAddAll(<<>>,
            Flatten(Map(LemmaOf, Flatten(Map(EntryOf, synset.members)))))

getSynsetWords(idx, synset) ==
    LET EntryOf(id) == MapGet(idx.entries, id)
        LemmaOf(e) == IF HasLemma(e) THEN Defined(e.lemmas[1].writtenForm)
                      ELSE Undefined
    IN  Flatten(Map(LemmaOf, Flatten(Map(EntryOf, synset.members))))

----------------------------------------------------------------------------
(* The destination database: six tables, each the sequence of its rows in  *)
(* insertion order.                                                        *)

\* db.exec(SCHEMA) on a new file: CREATE TABLE IF NOT EXISTS, six times
SCHEMA ==
    [words |-> <<>>, synsets |-> <<>>, word_synsets |-> <<>>,
     synset_examples |-> <<>>, synset_relations |-> <<>>,
     sense_relations |-> <<>>]

\* INSERT OR REPLACE: the row takes the place of the row with its primary
\* key
InsertOrReplace(table, row, key) ==
    LET Other(old) == \E column \in key : old[column] # row[column]
    IN  Append(SelectSeq(table, Other), row)

\* INSERT OR IGNORE: the row is dropped when a row with its primary key is
\* already there
InsertOrIgnore(table, row, key) ==
    IF \E i \in 1..Len(table) :
            \A column \in key : table[i][column] = row[column]
    THEN table ELSE Append(table, row)

\* the id SQLite gives a row inserted without one (INTEGER PRIMARY KEY)
NextRowId(table) ==
    IF table = <<>> THEN 1
    ELSE 1 + CHOOSE m \in {table[i].id : i \in 1..Len(table)} :
                \A i \in 1..Len(table) : table[i].id <= m

\* The period of the progress reports, counted in items. The code reports
\* every 10000 items (lines 144, 174, 207, 244, 285, 355); the period is
\* scaled down with the lexicons, so that a phase of a few items reports,
\* some phase more than once, and a phase of fewer items than the period
\* is met too.
ProgressEvery == 2

\* Report with the number of items left as `current`
ReportRemaining(evs, opts, phase, n, current, total) ==
    IF opts.onProgress /\ n % ProgressEvery = 0
    THEN Append(evs, [phase |-> phase, current |-> total - current,
                      total |-> total])
    ELSE evs

\* Report that skips the item numbered 0
ReportAfterFirstPeriod(evs, opts, phase, n, current, total) ==
    IF opts.onProgress /\ n > 0 /\ n % ProgressEvery = 0
    THEN Append(evs, [phase |-> phase, current |-> current, total |-> total])
    ELSE evs

\* `if (onProgress && n % 10000 === 0) onProgress({phase, current, total})`
Report(evs, opts, phase, n, current, total) ==
    IF opts.onProgress /\ n % ProgressEvery = 0
    THEN Append(evs, [phase |-> phase, current |-> current, total |-> total])
    ELSE evs

----------------------------------------------------------------------------
(* exportToSQLite, lines 107-123: the word -> entries map (a Map, iterated *)
(* in the order its keys were first set) and the synset lookup.            *)

\* `const word = entry.lemmas[0]?.writtenForm; if (word)`
HasWrittenForm(entry) ==
    Len(entry.lemmas) > 0 /\ entry.lemmas[1].writtenForm # <<>>

RECURSIVE WordToEntries(_, _)
WordToEntries(m, es) ==
    IF es = <<>> THEN m
    ELSE LET entry == Head(es)
             lower == toLowerCase(entry.lemmas[1].writtenForm)
         IN  IF HasWrittenForm(entry)
             THEN WordToEntries(
                    [keys |-> IF MapHas(m.get, lower) THEN m.keys
                              ELSE Append(m.keys, lower),
                     get |-> MapSet(m.get, lower,
                                Append(MapGetOrEmpty(m.get, lower), entry))],
                    Tail(es))
             ELSE WordToEntries(m, Tail(es))

RECURSIVE SynsetMap(_, _)
\* `for (const synset of lexicon.synsets) synsetMap.set(synset.id, synset)`
SynsetMap(m, ss) ==
    IF ss = <<>> THEN m
    ELSE SynsetMap(MapSet(m, Head(ss).id, Head(ss)), Tail(ss))

\* Array.prototype.sort() without a comparator: by UTF-16 code units
StringLess(a, b) ==
    \E i \in 1..Len(b) :
        /\ i - 1 <= Len(a)
        /\ \A j \in 1..(i - 1) : a[j] = b[j]
        /\ (i > Len(a) \/ a[i] < b[i])

RECURSIVE SortStrings(_)
SortStrings(S) ==
    IF S = {} THEN <<>>
    ELSE LET least == CHOOSE a \in S : \A b \in S \ {a} : StringLess(a, b)
         IN  <<least>> \o SortStrings(S \ {least})

----------------------------------------------------------------------------
(* Stage 1, words (lines 125-148) *)

RECURSIVE InsertWordsLastEntry(_, _, _, _)
\* InsertWords taking the display form from the last entry of the word
InsertWordsLastEntry(st, opts, w2e, i) ==
    LET words == SortStrings(Range(w2e.keys))
    IN  IF i >= Len(words) THEN st
        ELSE LET word == words[i + 1]
                 entries == w2e.get[word]
                 last == entries[Len(entries)]
                 display == IF HasWrittenForm(last)
                            THEN last.lemmas[1].writtenForm ELSE word
             IN  InsertWordsLastEntry(
                    [table |-> Append(st.table,
                                  [id |-> NextRowId(st.table),
                                   word |-> word,
                                   word_display |-> display]),
                     wordIds |-> MapSet(st.wordIds, word, st.wordId + 1),
                     wordId |-> st.wordId + 1,
                     events |-> Report(st.events, opts, "words", i, i,
                                       Len(words))],
                    opts, w2e, i + 1)

RECURSIVE InsertWordsUnsorted(_, _, _, _)
\* InsertWords without `.sort()`: the words in the order of the Map's keys
InsertWordsUnsorted(st, opts, w2e, i) ==
    LET words == w2e.keys
    IN  IF i >= Len(words) THEN st
        ELSE LET word == words[i + 1]
                 entries == w2e.get[word]
                 display == IF HasWrittenForm(entries[1])
                            THEN entries[1].lemmas[1].writtenForm ELSE word
             IN  InsertWordsUnsorted(
                    [table |-> Append(st.table,
                                  [id |-> NextRowId(st.table),
                                   word |-> word,
                                   word_display |-> display]),
                     wordIds |-> MapSet(st.wordIds, word, st.wordId + 1),
                     wordId |-> st.wordId + 1,
                     events |-> Report(st.events, opts, "words", i, i,
                                       Len(words))],
                    opts, w2e, i + 1)

RECURSIVE InsertWords(_, _, _, _)
\* st is [table, wordIds, wordId, events]; i is the 0-based loop index
InsertWords(st, opts, w2e, i) ==
    LET words == SortStrings(Range(w2e.keys))
    IN  IF i >= Len(words) THEN st
        ELSE LET word == words[i + 1]
                 entries == w2e.get[word]
                 display == IF HasWrittenForm(entries[1])
                            THEN entries[1].lemmas[1].writtenForm ELSE word
             IN  InsertWords(
                    [table |-> Append(st.table,
                                  [id |-> NextRowId(st.table),
                                   word |-> word,
                                   word_display |-> display]),
                     wordIds |-> MapSet(st.wordIds, word, st.wordId + 1),
                     wordId |-> st.wordId + 1,
                     events |-> Report(st.events, opts, "words", i, i,
                                       Len(words))],
                    opts, w2e, i + 1)

----------------------------------------------------------------------------
(* Stage 2, synsets (lines 150-178) *)

\* every entry of every word, in Map order, then its senses
WalkedEntries(w2e) ==
    LET Entries(word) == w2e.get[word] IN Flatten(Map(Entries, w2e.keys))

SensesOfEntries(entries) ==
    LET Senses(entry) == entry.senses IN Flatten(Map(Senses, entries))

UsedSynsetIds(w2e) ==
    LET SynsetOf(sense) == sense.synset
    IN  SetAddAll(<<>>, Map(SynsetOf, SensesOfEntries(WalkedEntries(w2e))))

\* helpers.ts is not among the sources; its tests define the predefined
\* entities.  Texts of the model are single tokens.
decodeXmlEntities(text) ==
    CASE text = "&amp;" -> "&"
      [] text = "&lt;" -> "<"
      [] text = "&gt;" -> ">"
      [] OTHER -> text

SynsetKey == {"id"}

RECURSIVE InsertSynsetsLastDefinition(_, _, _, _, _)
\* InsertSynsets taking the last definition of a synset, not the first
InsertSynsetsLastDefinition(st, opts, synsetMap, synsetList, i) ==
    IF i >= Len(synsetList) THEN st
    ELSE LET synsetId == synsetList[i + 1]
             definitions == synsetMap[synsetId].definitions
             def == IF definitions = <<>> THEN ""
                    ELSE decodeXmlEntities(
                            definitions[Len(definitions)].inner)
             table == IF MapHas(synsetMap, synsetId)
                      THEN InsertOrIgnore(st.table,
                              [id |-> synsetId,
                               pos |-> synsetMap[synsetId].partOfSpeech,
                               definition |-> def],
                              SynsetKey)
                      ELSE st.table
         IN  InsertSynsetsLastDefinition(
                [table |-> table,
                 events |-> Report(st.events, opts, "synsets", i, i,
                                   Len(synsetList))],
                opts, synsetMap, synsetList, i + 1)

RECURSIVE InsertSynsets(_, _, _, _, _)
\* st is [table, events]
InsertSynsets(st, opts, synsetMap, synsetList, i) ==
    IF i >= Len(synsetList) THEN st
    ELSE LET synsetId == synsetList[i + 1]
             def == IF synsetMap[synsetId].definitions = <<>> THEN ""
                    ELSE decodeXmlEntities(
                            synsetMap[synsetId].definitions[1].inner)
             table == IF MapHas(synsetMap, synsetId)
                      THEN InsertOrIgnore(st.table,
                              [id |-> synsetId,
                               pos |-> synsetMap[synsetId].partOfSpeech,
                               definition |-> def],
                              SynsetKey)
                      ELSE st.table
         IN  InsertSynsets(
                [table |-> table,
                 events |-> Report(st.events, opts, "synsets", i, i,
                                   Len(synsetList))],
                opts, synsetMap, synsetList, i + 1)

----------------------------------------------------------------------------
(* Stage 3, word_synsets (lines 180-212) *)

WordSynsetKey == {"word_id", "synset_id"}

RECURSIVE InsertSensesOrderPerEntry(_, _, _, _, _, _)
\* InsertSenses without `senseOrder++`
InsertSensesOrderPerEntry(st, opts, wId, senses, senseOrder, total) ==
    IF senses = <<>> THEN st
    ELSE InsertSensesOrderPerEntry(
            [table |-> InsertOrIgnore(st.table,
                          [word_id |-> wId,
                           synset_id |-> Head(senses).synset,
                           sense_order |-> senseOrder],
                          WordSynsetKey),
             wsCount |-> st.wsCount + 1,
             events |-> Report(st.events, opts, "word_synsets",
                               st.wsCount + 1, st.wsCount + 1, total)],
            opts, wId, Tail(senses), senseOrder, total)

RECURSIVE InsertSenses(_, _, _, _, _, _)
\* the two inner loops over one word's entries and their senses; st is
\* [table, wsCount, events]
InsertSenses(st, opts, wId, senses, senseOrder, total) ==
    IF senses = <<>> THEN st
    ELSE InsertSenses(
            [table |-> InsertOrIgnore(st.table,
                          [word_id |-> wId,
                           synset_id |-> Head(senses).synset,
                           sense_order |-> senseOrder],
                          WordSynsetKey),
             wsCount |-> st.wsCount + 1,
             events |-> Report(st.events, opts, "word_synsets",
                               st.wsCount + 1, st.wsCount + 1, total)],
            opts, wId, Tail(senses), senseOrder + 1, total)

RECURSIVE InsertWordSynsetsFromOne(_, _, _, _, _)
\* InsertWordSynsets with `let senseOrder = 1`
InsertWordSynsetsFromOne(st, opts, w2e, wordIds, keys) ==
    IF keys = <<>> THEN st
    ELSE InsertWordSynsetsFromOne(
            IF MapHas(wordIds, Head(keys))
            THEN InsertSenses(st, opts, wordIds[Head(keys)],
                    SensesOfEntries(w2e.get[Head(keys)]), 1,
                    Len(SensesOfEntries(WalkedEntries(w2e))))
            ELSE st,
            opts, w2e, wordIds, Tail(keys))

RECURSIVE InsertWordSynsets(_, _, _, _, _)
InsertWordSynsets(st, opts, w2e, wordIds, keys) ==
    IF keys = <<>> THEN st
    ELSE InsertWordSynsets(
            IF MapHas(wordIds, Head(keys))
            THEN InsertSenses(st, opts, wordIds[Head(keys)],
                    SensesOfEntries(w2e.get[Head(keys)]), 0,
                    Len(SensesOfEntries(WalkedEntries(w2e))))
            ELSE st,
            opts, w2e, wordIds, Tail(keys))

----------------------------------------------------------------------------
(* Stage 4, synset_examples (lines 214-249) *)

ExampleKey == {"synset_id", "example_order"}

TotalExamples(synsetMap, used) ==
    LET Examples(id) == IF MapHas(synsetMap, id) THEN synsetMap[id].examples
                        ELSE <<>>
    IN  Len(Flatten(Map(Examples, used)))

RECURSIVE InsertExamplesOfCounted(_, _, _, _, _, _)
\* InsertExamplesOf with example_order counting the stored examples of the
\* synset, not the declared position
InsertExamplesOfCounted(st, opts, synsetId, examples, i, total) ==
    IF i >= Len(examples) THEN st
    ELSE InsertExamplesOfCounted(
            IF decodeXmlEntities(examples[i + 1].inner) # ""
            THEN [table |-> InsertOrIgnore(st.table,
                                [synset_id |-> synsetId,
                                 example |->
                                     decodeXmlEntities(examples[i + 1].inner),
                                 example_order |->
                                     Cardinality({j \in 1..Len(st.table) :
                                        st.table[j].synset_id = synsetId})],
                                ExampleKey),
                  exCount |-> st.exCount + 1,
                  events |-> Report(st.events, opts, "synset_examples",
                                    st.exCount + 1, st.exCount + 1, total)]
            ELSE st,
            opts, synsetId, examples, i + 1, total)

RECURSIVE InsertExamplesOf(_, _, _, _, _, _)
\* st is [table, exCount, events]
InsertExamplesOf(st, opts, synsetId, examples, i, total) ==
    IF i >= Len(examples) THEN st
    ELSE InsertExamplesOf(
            IF decodeXmlEntities(examples[i + 1].inner) # ""
            THEN [table |-> InsertOrIgnore(st.table,
                                [synset_id |-> synsetId,
                                 example |->
                                     decodeXmlEntities(examples[i + 1].inner),
                                 example_order |-> i],
                                ExampleKey),
                  exCount |-> st.exCount + 1,
                  events |-> Report(st.events, opts, "synset_examples",
                                    st.exCount + 1, st.exCount + 1, total)]
            ELSE st,
            opts, synsetId, examples, i + 1, total)

RECURSIVE InsertExamples(_, _, _, _, _)
InsertExamples(st, opts, synsetMap, used, total) ==
    IF used = <<>> THEN st
    ELSE InsertExamples(
            IF MapHas(synsetMap, Head(used))
            THEN InsertExamplesOf(st, opts, Head(used),
                    synsetMap[Head(used)].examples, 0, total)
            ELSE st,
            opts, synsetMap, Tail(used), total)

----------------------------------------------------------------------------
(* Stage 5, synset_relations (lines 251-290) *)

SynsetRelationKey == {"source_id", "target_id", "rel_type"}

\* `if (usedSynsetIds.has(rel.target))`
RelationKept(used, rel) == rel.target \in Range(used)

TotalSynsetRelations(synsetMap, used) ==
    LET Kept(rel) == RelationKept(used, rel)
        Rels(id) == IF MapHas(synsetMap, id)
                    THEN SelectSeq(synsetMap[id].synsetRelations, Kept)
                    ELSE <<>>
    IN  Len(Flatten(Map(Rels, used)))

RECURSIVE InsertRelationsOf(_, _, _, _, _, _)
\* st is [table, srCount, events]
InsertRelationsOf(st, opts, used, synsetId, rels, total) ==
    IF rels = <<>> THEN st
    ELSE InsertRelationsOf(
            IF RelationKept(used, Head(rels))
            THEN [table |-> InsertOrIgnore(st.table,
                                [source_id |-> synsetId,
                                 target_id |-> Head(rels).target,
                                 rel_type |-> Head(rels).relType],
                                SynsetRelationKey),
                  srCount |-> st.srCount + 1,
                  events |-> Report(st.events, opts, "synset_relations",
                                    st.srCount + 1, st.srCount + 1, total)]
            ELSE st,
            opts, used, synsetId, Tail(rels), total)

RECURSIVE InsertSynsetRelations(_, _, _, _, _, _)
InsertSynsetRelations(st, opts, synsetMap, used, ids, total) ==
    IF ids = <<>> THEN st
    ELSE InsertSynsetRelations(
            IF MapHas(synsetMap, Head(ids))
            THEN InsertRelationsOf(st, opts, used, Head(ids),
                    synsetMap[Head(ids)].synsetRelations, total)
            ELSE st,
            opts, synsetMap, used, Tail(ids), total)

----------------------------------------------------------------------------
(* Stage 6, sense_relations (lines 292-362) *)

RECURSIVE MapSenses(_, _, _)
MapSenses(m, wId, senses) ==
    IF senses = <<>> THEN m
    ELSE MapSenses(MapSet(m, Head(senses).id,
                          [wordId |-> wId, synsetId |-> Head(senses).synset]),
                   wId, Tail(senses))

RECURSIVE SenseToWordSynset(_, _, _, _)
SenseToWordSynset(m, w2e, wordIds, keys) ==
    IF keys = <<>> THEN m
    ELSE SenseToWordSynset(
            IF MapHas(wordIds, Head(keys))
            THEN MapSenses(m, wordIds[Head(keys)],
                           SensesOfEntries(w2e.get[Head(keys)]))
            ELSE m,
            w2e, wordIds, Tail(keys))

SenseRelationKey ==
    {"source_word_id", "source_synset_id", "target_word_id",
     "target_synset_id", "rel_type"}

TotalSenseRelations(w2e, s2ws) ==
    LET Resolves(rel) == MapHas(s2ws, rel.target)
        Rels(sense) == SelectSeq(sense.senseRelations, Resolves)
    IN  Len(Flatten(Map(Rels, SensesOfEntries(WalkedEntries(w2e)))))

RECURSIVE InsertSenseRelationsOfSwapped(_, _, _, _, _, _, _)
\* InsertSenseRelationsOf with the two synset ids of a row exchanged
InsertSenseRelationsOfSwapped(st, opts, s2ws, wordId, synsetId, rels, total) ==
    IF rels = <<>> THEN st
    ELSE InsertSenseRelationsOfSwapped(
            IF MapHas(s2ws, Head(rels).target)
            THEN [table |-> InsertOrIgnore(st.table,
                                [source_word_id |-> wordId,
                                 source_synset_id |->
                                     s2ws[Head(rels).target].synsetId,
                                 target_word_id |->
                                     s2ws[Head(rels).target].wordId,
                                 target_synset_id |-> synsetId,
                                 rel_type |-> Head(rels).relType],
                                SenseRelationKey),
                  senseRelCount |-> st.senseRelCount + 1,
                  events |-> Report(st.events, opts, "sense_relations",
                                    st.senseRelCount + 1,
                                    st.senseRelCount + 1, total)]
            ELSE st,
            opts, s2ws, wordId, synsetId, Tail(rels), total)

RECURSIVE InsertSenseRelationsOf(_, _, _, _, _, _, _)
\* the loop over one sense's relations; st is [table, senseRelCount, events]
InsertSenseRelationsOf(st, opts, s2ws, wordId, synsetId, rels, total) ==
    IF rels = <<>> THEN st
    ELSE InsertSenseRelationsOf(
            IF MapHas(s2ws, Head(rels).target)
            THEN [table |-> InsertOrIgnore(st.table,
                                [source_word_id |-> wordId,
                                 source_synset_id |-> synsetId,
                                 target_word_id |->
                                     s2ws[Head(rels).target].wordId,
                                 target_synset_id |->
                                     s2ws[Head(rels).target].synsetId,
                                 rel_type |-> Head(rels).relType],
                                SenseRelationKey),
                  senseRelCount |-> st.senseRelCount + 1,
                  events |-> Report(st.events, opts, "sense_relations",
                                    st.senseRelCount + 1,
                                    st.senseRelCount + 1, total)]
            ELSE st,
            opts, s2ws, wordId, synsetId, Tail(rels), total)

RECURSIVE InsertSenseRelationsFrom(_, _, _, _, _, _)
\* the loop over one word's senses
InsertSenseRelationsFrom(st, opts, s2ws, sourceWordId, senses, total) ==
    IF senses = <<>> THEN st
    ELSE InsertSenseRelationsFrom(
            InsertSenseRelationsOf(st, opts, s2ws, sourceWordId,
                Head(senses).synset, Head(senses).senseRelations, total),
            opts, s2ws, sourceWordId, Tail(senses), total)

RECURSIVE InsertSenseRelations(_, _, _, _, _, _, _)
InsertSenseRelations(st, opts, w2e, wordIds, s2ws, keys, total) ==
    IF keys = <<>> THEN st
    ELSE InsertSenseRelations(
            IF MapHas(wordIds, Head(keys))
            THEN InsertSenseRelationsFrom(st, opts, s2ws, wordIds[Head(keys)],
                    SensesOfEntries(w2e.get[Head(keys)]), total)
            ELSE st,
            opts, w2e, wordIds, s2ws, Tail(keys), total)

----------------------------------------------------------------------------
(* The lexicons the model is run on.  Written forms: "", "ii", "Ii" and    *)
(* U+0131 followed by "i"; "ii" and "Ii" are one word.                     *)

MaxWordLen == 2
MaxSenses == 2
MaxMembers == 2
MaxRelations == 2

RECURSIVE SeqsUpTo(_, _)
\* the sequences over S of length at most n
SeqsUpTo(S, n) ==
    IF n = 0 THEN {<<>>}
    ELSE LET shorter == SeqsUpTo(S, n - 1)
         IN  shorter \cup
             {Append(q, x) : q \in {r \in shorter : Len(r) = n - 1}, x \in S}

Alphabet == {73, 105, 305}

Words == SeqsUpTo(Alphabet, MaxWordLen)

Lemmas(writtenForm) == <<[writtenForm |-> writtenForm]>>

FirstLemmas == {<<>>, Lemmas(<<>>), Lemmas(<<105, 105>>), Lemmas(<<73, 105>>),
                Lemmas(<<305, 105>>)}

SecondLemmas == {Lemmas(<<73, 105>>), Lemmas(<<305, 105>>)}

\* "s9" and "e9" are in no lexicon: references to them dangle
SynsetRefs == {"s1", "s2", "s9"}

MemberRefs == {"e1", "e2", "e9"}

RelTypes == {"hypernym", "hyponym", "similar"}

SynsetRelations ==
    {[relType |-> "hypernym", target |-> "s2"],
     [relType |-> "hypernym", target |-> "s9"],
     [relType |-> "hyponym", target |-> "s2"]}

EntryId(k) == "e" \o ToString(k)

SenseId(k, j) == EntryId(k) \o "s" \o ToString(j)

SenseIds == {SenseId(k, j) : k \in 1..2, j \in 1..MaxSenses} \cup {"e9s1"}

\* entry k with the given lemmas and one sense per synset reference; its
\* first sense has the given sense relations
LexicalEntry(k, lemmas, refs, relations) ==
    [id |-> EntryId(k),
     lemmas |-> lemmas,
     senses |-> [j \in 1..Len(refs) |->
                    [id |-> SenseId(k, j),
                     synset |-> refs[j],
                     senseRelations |->
                        IF j = 1 THEN relations ELSE <<>>]]]

Antonym(target) == <<[relType |-> "antonym", target |-> target]>>

Synset1(members, relations) ==
    [id |-> "s1", partOfSpeech |-> "n",
     definitions |-> <<[inner |-> "d1"], [inner |-> "d2"]>>,
     examples |-> <<[inner |-> "x1"], [inner |-> ""], [inner |-> "&lt;"],
                    [inner |-> "x2"], [inner |-> "x3"]>>,
     members |-> members,
     synsetRelations |-> relations]

Synset2(members, relations) ==
    [id |-> "s2", partOfSpeech |-> "v", definitions |-> <<[inner |-> "&amp;"]>>,
     examples |-> <<>>, members |-> members,
     synsetRelations |-> relations]

Lexicon(e1, e2, s1, s2) ==
    [lexicalEntries |-> <<e1, e2>>, synsets |-> <<s1, s2>>]

\* the entries vary: their lemmas and the synsets their senses refer to
EntryLexicons ==
    {Lexicon(LexicalEntry(1, l1, r1, Antonym("e2s1") \o Antonym("e2s1")),
             LexicalEntry(2, l2, r2, Antonym("e9s1")),
             Synset1(<<"e1", "e2">>,
                     <<[relType |-> "hypernym", target |-> "s2"],
                       [relType |-> "similar", target |-> "s2"]>>),
             Synset2(<<"e2">>, <<>>)) :
        l1 \in FirstLemmas, l2 \in SecondLemmas,
        r1 \in SeqsUpTo(SynsetRefs, MaxSenses),
        r2 \in {<<>>, <<"s1">>, <<"s2">>}}

\* the members of the synsets vary, and the lemmas of the entries
MemberLexicons ==
    {Lexicon(LexicalEntry(1, l1, <<"s1", "s2">>, <<>>),
             LexicalEntry(2, l2, <<"s1">>, <<>>),
             Synset1(m1, <<>>), Synset2(<<"e2">>, <<>>)) :
        l1 \in FirstLemmas, l2 \in SecondLemmas,
        m1 \in SeqsUpTo(MemberRefs, MaxMembers)}

\* the relations of the synsets vary, and the synsets the senses refer to
RelationLexicons ==
    {Lexicon(LexicalEntry(1, Lemmas(<<105, 105>>), r1, <<>>),
             LexicalEntry(2, Lemmas(<<305, 105>>), <<>>, <<>>),
             Synset1(<<"e1">>, rel1), Synset2(<<"e2">>, rel2)) :
        r1 \in {<<>>, <<"s1">>, <<"s1", "s2">>, <<"s1", "s9">>},
        rel1 \in SeqsUpTo(SynsetRelations, MaxRelations),
        rel2 \in {<<>>, <<[relType |-> "hypernym", target |-> "s1"]>>}}

Lexicons == EntryLexicons \cup MemberLexicons \cup RelationLexicons

\* lexicons that hold two synset records with the identifier "s1", which
\* differ in their part of speech, definitions, examples and members
DuplicateLexicons ==
    {Lexicon(LexicalEntry(1, Lemmas(<<105, 105>>), r1, <<>>),
             LexicalEntry(2, Lemmas(<<73, 105>>), r2, <<>>),
             Synset1(<<"e1">>, <<>>),
             [Synset2(<<"e2">>, <<>>) EXCEPT !.id = "s1"]) :
        r1 \in {<<"s1">>, <<"s1", "s1">>, <<"s1", "s2">>},
        r2 \in {<<>>, <<"s1">>}}

\* the lexicons a caller loads after the first
OtherLexicons ==
    {Lexicon(LexicalEntry(1, Lemmas(<<305, 105>>), <<"s2">>, <<>>),
             LexicalEntry(2, l2, <<"s1", "s2">>, <<>>),
             Synset1(<<"e2">>, <<>>), Synset2(<<"e1", "e2">>, <<>>)) :
        l2 \in {<<>>, Lemmas(<<105, 105>>)}}

----------------------------------------------------------------------------
(* The caller: it loads a lexicon, builds the index and queries it; it may *)
(* then load another lexicon and build an index for that one.              *)

NoFile == [exists |-> FALSE, tables |-> SCHEMA]

Init ==
    /\ lexicon \in Lexicons \cup DuplicateLexicons
    /\ pc = "loaded"
    /\ index = <<>>
    /\ call = <<>>
    /\ result = <<>>
    /\ options = <<>>
    /\ file = NoFile
    /\ work = <<>>
    /\ events = <<>>
    /\ error = ""
    /\ cacheDir = <<>>
    /\ releases = {}
    /\ currentYear = 0
    /\ earlier = <<>>

BuildIndex ==
    /\ pc = "loaded"
    /\ index' = buildIndex(lexicon)
    /\ pc' = "indexed"
    /\ UNCHANGED <<loader, earlier, lexicon, call, result, options, file,
                   work, events,
                   error>>

\* a query returns `res` to the caller
Answer(c, res) ==
    /\ pc = "indexed"
    /\ call' = c
    /\ result' = res
    /\ pc' = "answered"
    /\ UNCHANGED <<loader, earlier, lexicon, index, options, file, work,
                   events, error>>

GetSynset(id) ==
    Answer([op |-> "getSynset", id |-> id], getSynset(index, id))

GetSense(id) ==
    Answer([op |-> "getSense", id |-> id], getSense(index, id))

GetLexicalEntry(id) ==
    Answer([op |-> "getLexicalEntry", id |-> id], getLexicalEntry(index, id))

FindWord(word) ==
    Answer([op |-> "findWord", word |-> word], findWord(index, word))

FindSenses(word) ==
    Answer([op |-> "findSenses", word |-> word], findSenses(index, word))

FindSynsets(word) ==
    Answer([op |-> "findSynsets", word |-> word], findSynsets(index, word))

GetDefinitions(word) ==
    Answer([op |-> "getDefinitions", word |-> word],
           getDefinitions(index, word))

GetRelated(synset, relType) ==
    Answer([op |-> "getRelated", synset |-> synset, relType |-> relType],
           getRelated(index, synset, relType))

GetHypernyms(word) ==
    Answer([op |-> "getHypernyms", word |-> word], getHypernyms(index, word))

GetHyponyms(word) ==
    Answer([op |-> "getHyponyms", word |-> word], getHyponyms(index, word))

GetSynonyms(word) ==
    Answer([op |-> "getSynonyms", word |-> word], getSynonyms(index, word))

GetSynsetWords(synset) ==
    Answer([op |-> "getSynsetWords", synset |-> synset],
           getSynsetWords(index, synset))

\* the maps of the index are made once for the module and buildIndex fills
\* them again: the earlier index and the new one are the same maps
BuildAnotherSharedMaps(lex) ==
    /\ pc = "indexed"
    /\ earlier = <<>>
    /\ lexicon' = lex
    /\ index' = IndexEntries(
                    [index EXCEPT !.synsets = IndexSynsets(@, lex.synsets),
                                  !.lexicon = lex],
                    lex.lexicalEntries)
    /\ earlier' = [index' EXCEPT !.lexicon = lexicon]
    /\ pc' = "rebuilt"
    /\ UNCHANGED <<loader, call, result, options, file, work, events, error>>

\* the caller loads another lexicon and calls buildIndex for it, keeping
\* the index built before
BuildAnother(lex) ==
    /\ pc = "indexed"
    /\ earlier = <<>>
    /\ lexicon' = lex
    /\ index' = buildIndex(lex)
    /\ earlier' = index
    /\ pc' = "rebuilt"
    /\ UNCHANGED <<loader, call, result, options, file, work, events, error>>

\* the caller takes the result and may query again
Return ==
    /\ pc = "answered"
    /\ pc' = "indexed"
    /\ call' = <<>>
    /\ result' = <<>>
    /\ UNCHANGED <<loader, earlier, lexicon, index, options, file, work,
                   events, error>>

Next ==
    \/ BuildIndex
    \/ \E id \in SynsetRefs : GetSynset(id)
    \/ \E id \in SenseIds : GetSense(id)
    \/ \E id \in MemberRefs : GetLexicalEntry(id)
    \/ \E word \in Words : FindWord(word)
    \/ \E word \in Words : FindSenses(word)
    \/ \E word \in Words : FindSynsets(word)
    \/ \E word \in Words : GetDefinitions(word)
    \/ \E synset \in Range(lexicon.synsets), relType \in RelTypes :
            GetRelated(synset, relType)
    \/ \E word \in Words : GetHypernyms(word)
    \/ \E word \in Words : GetHyponyms(word)
    \/ \E word \in Words : GetSynonyms(word)
    \/ \E synset \in Range(lexicon.synsets) : GetSynsetWords(synset)
    \/ Return
    \/ \E other \in OtherLexicons : BuildAnother(other)

Spec == Init /\ [][Next]_vars

----------------------------------------------------------------------------
(* exportToSQLite, a step per stage: each stage is one transaction on the  *)
(* destination.                                                            *)

\* a destination left by an earlier run
EarlierFile ==
    [exists |-> TRUE,
     tables |-> [SCHEMA EXCEPT
                    !.words = <<[id |-> 1, word |-> <<105>>,
                                 word_display |-> <<73>>]>>]]

ExportOptions == [overwrite : BOOLEAN, onProgress : BOOLEAN]

InitExport ==
    /\ lexicon \in Lexicons
    /\ pc = "loaded"
    /\ index = <<>>
    /\ call = <<>>
    /\ result = <<>>
    /\ options = <<>>
    /\ file \in {NoFile, EarlierFile}
    /\ work = <<>>
    /\ events = <<>>
    /\ error = ""
    /\ cacheDir = <<>>
    /\ releases = {}
    /\ currentYear = 0
    /\ earlier = <<>>

\* ExportOpen with the database opened before the existence check
ExportOpenCreateFirst(opts) ==
    /\ pc \in {"loaded", "aborted"}
    /\ options' = opts
    /\ events' = <<>>
    /\ IF file.exists /\ ~opts.overwrite
       THEN /\ error' = "File already exists"
            /\ pc' = "failed"
            /\ file' = [exists |-> TRUE, tables |-> SCHEMA]
            /\ UNCHANGED work
       ELSE /\ file' = [exists |-> TRUE, tables |-> SCHEMA]
            /\ work' = [wordToEntries |->
                            WordToEntries([keys |-> <<>>, get |-> EmptyMap],
                                          lexicon.lexicalEntries),
                        synsetMap |-> SynsetMap(EmptyMap, lexicon.synsets),
                        wordIds |-> EmptyMap,
                        usedSynsetIds |-> <<>>]
            /\ pc' = "words"
            /\ error' = ""
    /\ UNCHANGED <<loader, earlier, lexicon, index, call, result>>

\* ExportOpen with the earlier file opened instead of removed: CREATE TABLE
\* IF NOT EXISTS keeps the rows it holds
ExportOpenKeepsFile(opts) ==
    /\ pc \in {"loaded", "aborted"}
    /\ options' = opts
    /\ events' = <<>>
    /\ IF file.exists /\ ~opts.overwrite
       THEN /\ error' = "File already exists"
            /\ pc' = "failed"
            /\ UNCHANGED <<file, work>>
       ELSE /\ file' = IF file.exists THEN file
                       ELSE [exists |-> TRUE, tables |-> SCHEMA]
            /\ work' = [wordToEntries |->
                            WordToEntries([keys |-> <<>>, get |-> EmptyMap],
                                          lexicon.lexicalEntries),
                        synsetMap |-> SynsetMap(EmptyMap, lexicon.synsets),
                        wordIds |-> EmptyMap,
                        usedSynsetIds |-> <<>>]
            /\ pc' = "words"
            /\ error' = ""
    /\ UNCHANGED <<loader, earlier, lexicon, index, call, result>>

\* lines 88-123: the existence check, the new database, the two lookups.
\* exportToSQLite is entered for the first time, or again after a call that
\* an exception ended; each call has its own observer and its own locals.
ExportOpen(opts) ==
    /\ pc \in {"loaded", "aborted"}
    /\ options' = opts
    /\ events' = <<>>
    /\ IF file.exists /\ ~opts.overwrite
       THEN /\ error' = "File already exists"
            /\ pc' = "failed"
            /\ UNCHANGED <<file, work>>
       ELSE /\ file' = [exists |-> TRUE, tables |-> SCHEMA]
            /\ work' = [wordToEntries |->
                            WordToEntries([keys |-> <<>>, get |-> EmptyMap],
                                          lexicon.lexicalEntries),
                        synsetMap |-> SynsetMap(EmptyMap, lexicon.synsets),
                        wordIds |-> EmptyMap,
                        usedSynsetIds |-> <<>>]
            /\ pc' = "words"
            /\ error' = ""
    /\ UNCHANGED <<loader, earlier, lexicon, index, call, result>>

\* StageWords with the synsets stage left out of the sequence
StageWordsSkipsSynsets ==
    /\ pc = "words"
    /\ LET st == InsertWords([table |-> file.tables.words,
                              wordIds |-> EmptyMap, wordId |-> 0,
                              events |-> events],
                             options, work.wordToEntries, 0)
       IN  /\ file' = [file EXCEPT !.tables.words = st.table]
           /\ work' = [work EXCEPT !.wordIds = st.wordIds]
           /\ events' = st.events
    /\ pc' = "word_synsets"
    /\ UNCHANGED <<loader, earlier, lexicon, index, call, result, options,
                   error>>

StageWords ==
    /\ pc = "words"
    /\ LET st == InsertWords([table |-> file.tables.words,
                              wordIds |-> EmptyMap, wordId |-> 0,
                              events |-> events],
                             options, work.wordToEntries, 0)
       IN  /\ file' = [file EXCEPT !.tables.words = st.table]
           /\ work' = [work EXCEPT !.wordIds = st.wordIds]
           /\ events' = st.events
    /\ pc' = "synsets"
    /\ UNCHANGED <<loader, earlier, lexicon, index, call, result, options,
                   error>>

StageSynsets ==
    /\ pc = "synsets"
    /\ LET used == UsedSynsetIds(work.wordToEntries)
           st == InsertSynsets([table |-> file.tables.synsets,
                                events |-> events],
                               options, work.synsetMap, used, 0)
       IN  /\ file' = [file EXCEPT !.tables.synsets = st.table]
           /\ work' = [work EXCEPT !.usedSynsetIds = used]
           /\ events' = st.events
    /\ pc' = "word_synsets"
    /\ UNCHANGED <<loader, earlier, lexicon, index, call, result, options,
                   error>>

StageWordSynsets ==
    /\ pc = "word_synsets"
    /\ LET st == InsertWordSynsets([table |-> file.tables.word_synsets,
                                    wsCount |-> 0, events |-> events],
                                   options, work.wordToEntries, work.wordIds,
                                   work.wordToEntries.keys)
       IN  /\ file' = [file EXCEPT !.tables.word_synsets = st.table]
           /\ events' = st.events
    /\ pc' = "synset_examples"
    /\ UNCHANGED <<loader, earlier, lexicon, index, call, result, options,
                   work, error>>

StageExamples ==
    /\ pc = "synset_examples"
    /\ LET st == InsertExamples([table |-> file.tables.synset_examples,
                                 exCount |-> 0, events |-> events],
                                options, work.synsetMap, work.usedSynsetIds,
                                TotalExamples(work.synsetMap,
                                              work.usedSynsetIds))
       IN  /\ file' = [file EXCEPT !.tables.synset_examples = st.table]
           /\ events' = st.events
    /\ pc' = "synset_relations"
    /\ UNCHANGED <<loader, earlier, lexicon, index, call, result, options,
                   work, error>>

StageSynsetRelations ==
    /\ pc = "synset_relations"
    /\ LET st == InsertSynsetRelations(
                    [table |-> file.tables.synset_relations,
                     srCount |-> 0, events |-> events],
                    options, work.synsetMap, work.usedSynsetIds,
                    work.usedSynsetIds,
                    TotalSynsetRelations(work.synsetMap, work.usedSynsetIds))
       IN  /\ file' = [file EXCEPT !.tables.synset_relations = st.table]
           /\ events' = st.events
    /\ pc' = "sense_relations"
    /\ UNCHANGED <<loader, earlier, lexicon, index, call, result, options,
                   work, error>>

\* the last stage, then db.close()
StageSenseRelations ==
    /\ pc = "sense_relations"
    /\ LET s2ws == SenseToWordSynset(EmptyMap, work.wordToEntries,
                                     work.wordIds, work.wordToEntries.keys)
           st == InsertSenseRelations(
                    [table |-> file.tables.sense_relations,
                     senseRelCount |-> 0, events |-> events],
                    options, work.wordToEntries, work.wordIds, s2ws,
                    work.wordToEntries.keys,
                    TotalSenseRelations(work.wordToEntries, s2ws))
       IN  /\ file' = [file EXCEPT !.tables.sense_relations = st.table]
           /\ events' = st.events
    /\ pc' = "exported"
    /\ UNCHANGED <<loader, earlier, lexicon, index, call, result, options,
                   work, error>>

Stages == <<"words", "synsets", "word_synsets", "synset_examples",
            "synset_relations", "sense_relations">>

\* what the stage at which the export stands writes when it runs to its
\* COMMIT: the table of the stage and the events delivered
StageResult ==
    CASE pc = "words" ->
            InsertWords([table |-> file.tables.words,
                         wordIds |-> EmptyMap, wordId |-> 0,
                         events |-> events],
                        options, work.wordToEntries, 0)
      [] pc = "synsets" ->
            InsertSynsets([table |-> file.tables.synsets, events |-> events],
                          options, work.synsetMap,
                          UsedSynsetIds(work.wordToEntries), 0)
      [] pc = "word_synsets" ->
            InsertWordSynsets([table |-> file.tables.word_synsets,
                               wsCount |-> 0, events |-> events],
                              options, work.wordToEntries, work.wordIds,
                              work.wordToEntries.keys)
      [] pc = "synset_examples" ->
            InsertExamples([table |-> file.tables.synset_examples,
                            exCount |-> 0, events |-> events],
                           options, work.synsetMap, work.usedSynsetIds,
                           TotalExamples(work.synsetMap, work.usedSynsetIds))
      [] pc = "synset_relations" ->
            InsertSynsetRelations(
                [table |-> file.tables.synset_relations,
                 srCount |-> 0, events |-> events],
                options, work.synsetMap, work.usedSynsetIds,
                work.usedSynsetIds,
                TotalSynsetRelations(work.synsetMap, work.usedSynsetIds))
      [] pc = "sense_relations" ->
            LET s2ws == SenseToWordSynset(EmptyMap, work.wordToEntries,
                                          work.wordIds,
                                          work.wordToEntries.keys)
            IN  InsertSenseRelations(
                    [table |-> file.tables.sense_relations,
                     senseRelCount |-> 0, events |-> events],
                    options, work.wordToEntries, work.wordIds, s2ws,
                    work.wordToEntries.keys,
                    TotalSenseRelations(work.wordToEntries, s2ws))

\* An insert or the observer throws between a stage's BEGIN and its COMMIT.
\* exportToSQLite catches nothing (lines 133-362): the exception leaves it,
\* the open transaction is never committed and db.close() is not reached.
\* With journal_mode = OFF (line 103) nothing rolls the rows of the open
\* transaction back, so any number of them, from none to all, may be in the
\* file; the events delivered are a prefix of those of the stage.
StageAborts ==
    /\ pc \in Range(Stages)
    /\ \E n \in 0 .. Len(StageResult.table),
          m \in Len(events) .. Len(StageResult.events) :
          /\ file' = [file EXCEPT
                         !.tables[pc] = SubSeq(StageResult.table, 1, n)]
          /\ events' = SubSeq(StageResult.events, 1, m)
    /\ pc' = "aborted"
    /\ error' = "exception"
    /\ UNCHANGED <<loader, earlier, lexicon, index, call, result, options,
                   work>>

NextExport ==
    \/ \E opts \in ExportOptions : ExportOpen(opts)
    \/ StageWords
    \/ StageSynsets
    \/ StageWordSynsets
    \/ StageExamples
    \/ StageSynsetRelations
    \/ StageSenseRelations
    \/ StageAborts

SpecExport == InitExport /\ [][NextExport]_vars

----------------------------------------------------------------------------
(* Properties of the exported database, under SpecExport.                  *)

Rows(table) == Range(table)

Ids(table) == {row.id : row \in Rows(table)}

\* the senses of the lexicon filed under a lower-cased word, entry by
\* entry in lexicon order
SensesWalked(word) ==
    LET OfWord(entry) ==
            /\ Len(entry.lemmas) > 0
            /\ entry.lemmas[1].writtenForm # <<>>
            /\ toLowerCase(entry.lemmas[1].writtenForm) = word
    IN  SensesOfEntries(SelectSeq(lexicon.lexicalEntries, OfWord))

\* the word_synsets rows of a word, in table order
WordSynsetRows(wordId) ==
    LET OfWord(row) == row.word_id = wordId
    IN  SelectSeq(file.tables.word_synsets, OfWord)

SenseOrders(wordId) ==
    LET Order(row) == row.sense_order IN Map(Order, WordSynsetRows(wordId))

\* C1 as stated: after the export the sense_order values of each word's
\* word_synsets rows are exactly 0, 1, ..., k-1, without gap or repeat,
\* k being the number of senses walked for the word.
C1_SenseOrderIsRange ==
    pc = "exported" =>
        \A w \in Rows(file.tables.words) :
            LET k == Len(SensesWalked(w.word))
            IN  /\ Len(SenseOrders(w.id)) = k
                /\ Range(SenseOrders(w.id)) = 0..(k - 1)

\* C1 as amended: each word has one word_synsets row per synset its walked
\* senses refer to, carrying the 0-based position of the first walked sense
\* that refers to it; so the values are distinct and within 0..k-1, and
\* they are exactly 0..k-1 when no two walked senses share a synset.
C1_SenseOrderIsFirstPosition ==
    pc = "exported" =>
        \A w \in Rows(file.tables.words) :
            LET senses == SensesWalked(w.word)
                k == Len(senses)
                rows == WordSynsetRows(w.id)
                Distinct == \A i, j \in 1..k :
                                i # j => senses[i].synset # senses[j].synset
            IN  /\ \A i, j \in 1..Len(rows) :
                        i < j => rows[i].sense_order < rows[j].sense_order
                /\ \A row \in Range(rows) :
                        /\ row.sense_order \in 0..(k - 1)
                        /\ senses[row.sense_order + 1].synset = row.synset_id
                        /\ \A j \in 1..row.sense_order :
                                senses[j].synset # row.synset_id
                /\ {row.synset_id : row \in Range(rows)}
                        = {senses[j].synset : j \in 1..k}
                /\ Distinct => SenseOrders(w.id) = [i \in 1..k |-> i - 1]

\* an export of a word with two senses on two synsets: rows 0 and 1
C1_Witness ==
    /\ pc = "exported"
    /\ \E w \in Rows(file.tables.words) :
            /\ Len(SensesWalked(w.word)) = 2
            /\ SenseOrders(w.id) = <<0, 1>>

\* C2: after the export every word_synsets row joins: its word_id is the
\* id of a words row and its synset_id the id of a synsets row.
C2_WordSynsetsJoin ==
    pc = "exported" =>
        \A row \in Rows(file.tables.word_synsets) :
            /\ row.word_id \in Ids(file.tables.words)
            /\ row.synset_id \in Ids(file.tables.synsets)

\* C3: after the export every synset_relations row has its source_id and
\* its target_id among the ids of the synsets table.
C3_RelationsWithinSynsets ==
    pc = "exported" =>
        \A row \in Rows(file.tables.synset_relations) :
            /\ row.source_id \in Ids(file.tables.synsets)
            /\ row.target_id \in Ids(file.tables.synsets)

\* C4: when the destination exists and overwrite is not requested, the
\* export fails with an error and writes nothing: the destination is as it
\* was, and no progress event is delivered.
C4_RefusedBeforeAnyWrite ==
    [][(pc = "loaded" /\ pc' # "loaded" /\ file.exists
            /\ ~options'.overwrite)
        => /\ pc' = "failed"
           /\ error' # ""
           /\ file' = file
           /\ events' = events
           /\ events' = <<>>]_vars

\* a refused export over the earlier file, with a progress callback given
C4_Witness ==
    /\ pc = "failed"
    /\ error # ""
    /\ options = [overwrite |-> FALSE, onProgress |-> TRUE]
    /\ file = EarlierFile

----------------------------------------------------------------------------
(* Properties of the index and of the query operators, under Spec.         *)

Answered(op) == pc = "answered" /\ call.op = op

\* String.prototype.toUpperCase on the code units of the model: a-z map to
\* A-Z and the dotless i (U+0131) maps to "I"
toUpperCaseUnit(c) ==
    IF c \in 97..122 THEN c - 32 ELSE IF c = 305 THEN 73 ELSE c

toUpperCase(s) == [i \in 1..Len(s) |-> toUpperCaseUnit(s[i])]

\* the spellings of a word that differ from it in the case of letters only
MixedCase(word) ==
    {m \in Words :
        /\ Len(m) = Len(word)
        /\ \A i \in 1..Len(word) :
                m[i] \in {word[i], toUpperCaseUnit(word[i]),
                          toLowerCaseUnit(word[i])}}

\* the member identifiers, by position, that resolve in the entries map
ResolvedMembers(synset) ==
    {i \in 1..Len(synset.members) : synset.members[i] \in DOMAIN index.entries}

\* the n-th smallest element of a set of positions
Nth(positions, n) ==
    CHOOSE i \in positions : Cardinality({j \in positions : j <= i}) = n

\* C5 as stated: getSynsetWords returns as many words as the synset has
\* member identifiers that resolve in the entries-by-id map.
C5_LengthIsResolvedMembers ==
    Answered("getSynsetWords") =>
        Len(result) = Cardinality(ResolvedMembers(call.synset))

\* C5 as amended: getSynsetWords returns, in member order and without
\* deduplication, the first written form of every member that resolves to
\* an entry with a lemma; members that do not resolve, or resolve to an
\* entry without a lemma, are dropped.
C5_WordsOfMembersWithLemma ==
    Answered("getSynsetWords") =>
        LET members == call.synset.members
            kept == {i \in ResolvedMembers(call.synset) :
                        Len(index.entries[members[i]].lemmas) > 0}
        IN  /\ Len(result) = Cardinality(kept)
            /\ \A n \in 1..Len(result) :
                    result[n] = index.entries[members[Nth(kept, n)]]
                                    .lemmas[1].writtenForm

\* a synset naming the same entry twice: its written form comes twice
C5_Witness ==
    /\ Answered("getSynsetWords")
    /\ Len(call.synset.members) = 2
    /\ call.synset.members[1] = call.synset.members[2]
    /\ Len(result) = 2
    /\ result[1] = result[2]

\* C6: after buildIndex every sense of every lexical entry resolves by its
\* identifier through getSense, whether or not its entry has a lemma.
C6_EverySenseResolves ==
    Answered("getSense") =>
        \A entry \in Range(lexicon.lexicalEntries) :
            \A sense \in Range(entry.senses) :
                sense.id = call.id => result = <<sense>>

\* C7: getSynonyms returns no result whose word equals the query word when
\* both are lower-cased, and no two results with the same lemma string.
C7_SynonymsExcludeWordAndRepeats ==
    Answered("getSynonyms") =>
        /\ \A i \in 1..Len(result) :
                toLowerCase(result[i].word) # toLowerCase(call.word)
        /\ \A i, j \in 1..Len(result) :
                i # j => result[i].word # result[j].word

\* the query "II" in a synset with the members "Ii" and dotless-i "i":
\* the first is the word itself, the second its only synonym
C7_Witness ==
    /\ Answered("getSynonyms")
    /\ call.word = <<73, 73>>
    /\ Len(result) = 1
    /\ result[1].word = <<305, 105>>
    /\ \E synset \in Range(findSynsets(index, call.word)) :
            \E id \in Range(synset.members) :
                /\ id \in DOMAIN index.entries
                /\ index.entries[id].lemmas = Lemmas(<<73, 105>>)

FindOps == {"findWord", "findSenses", "findSynsets"}

Find(op, word) ==
    CASE op = "findWord" -> findWord(index, word)
      [] op = "findSenses" -> findSenses(index, word)
      [] op = "findSynsets" -> findSynsets(index, word)

\* C8 as stated: findWord, findSenses and findSynsets return the same for a
\* word, for the word upper-cased and for its mixed-case spellings.
C8_SameForUpperAndMixedCase ==
    (pc = "answered" /\ call.op \in FindOps) =>
        /\ result = Find(call.op, toUpperCase(call.word))
        /\ \A m \in MixedCase(call.word) : result = Find(call.op, m)

\* C8 as amended: findWord, findSenses and findSynsets return the same for
\* any two spellings with the same lower-case form; this covers the
\* upper-cased word and a mixed-case spelling when they lower-case to the
\* lower-case form of the word.
C8_SameForEqualLowerCase ==
    (pc = "answered" /\ call.op \in FindOps) =>
        \A m \in Words \cup {toUpperCase(call.word)} :
            toLowerCase(m) = toLowerCase(call.word)
                => result = Find(call.op, m)

\* the query "II" finds the entries of the word "ii"
C8_Witness ==
    /\ Answered("findWord")
    /\ call.word = <<73, 73>>
    /\ Len(result) >= 1
    /\ result = Find("findWord", <<105, 73>>)

WordOps == {"findWord", "findSenses", "findSynsets", "getDefinitions",
            "getSynonyms", "getHypernyms", "getHyponyms"}

\* no entry is indexed under the lower-cased word
Unknown(word) == toLowerCase(word) \notin DOMAIN index.byWord

\* C9: for a word under which no entry is indexed, each of the seven
\* operators that take a word returns the empty sequence, and no error is
\* raised.
C9_UnknownWordIsEmpty ==
    (pc = "answered" /\ call.op \in WordOps /\ Unknown(call.word)) =>
        result = <<>> /\ error = ""

\* an unknown word asked of an index that knows other words
C9_Witness ==
    /\ Answered("getSynonyms")
    /\ Unknown(call.word)
    /\ DOMAIN index.sensesByWord # {}
    /\ DOMAIN index.synsetsByWord # {}
    /\ result = <<>>

\* C10: getRelated returns, in declared order, the synsets that are the
\* targets of the synset's relations of the given type and resolve in the
\* synsets-by-id map; nothing stands for a target that does not resolve,
\* and relations of other types add nothing.
C10_RelatedAreResolvedTargets ==
    Answered("getRelated") =>
        LET rels == call.synset.synsetRelations
            kept == {i \in 1..Len(rels) :
                        /\ rels[i].relType = call.relType
                        /\ rels[i].target \in DOMAIN index.synsets}
        IN  /\ Len(result) = Cardinality(kept)
            /\ \A n \in 1..Len(result) :
                    result[n] = index.synsets[rels[Nth(kept, n)].target]

\* a dangling hypernym, then a hypernym that resolves: one synset returned
C10_Witness ==
    /\ Answered("getRelated")
    /\ call.relType = "hypernym"
    /\ Len(call.synset.synsetRelations) = 2
    /\ call.synset.synsetRelations[1]
            = [relType |-> "hypernym", target |-> "s9"]
    /\ call.synset.synsetRelations[2].relType = "hypernym"
    /\ Len(result) = 1
    /\ result[1].id = "s2"

----------------------------------------------------------------------------
(* Dangling references *)

KnownSynsetIds == {synset.id : synset \in Range(lexicon.synsets)}

KnownSenseIds ==
    {sense.id : sense \in Range(SensesOfEntries(lexicon.lexicalEntries))}

\* some sense, member or relation of the lexicon names an identifier that
\* nothing in the lexicon has
HasDangling ==
    \/ \E sense \in Range(SensesOfEntries(lexicon.lexicalEntries)) :
            \/ sense.synset \notin KnownSynsetIds
            \/ \E rel \in Range(sense.senseRelations) :
                    rel.target \notin KnownSenseIds
    \/ \E synset \in Range(lexicon.synsets) :
            \/ \E id \in Range(synset.members) :
                    id \notin {e.id : e \in Range(lexicon.lexicalEntries)}
            \/ \E rel \in Range(synset.synsetRelations) :
                    rel.target \notin KnownSynsetIds

----------------------------------------------------------------------------
(* The words table against the index of the same lexicon *)

WordRows(word) ==
    {i \in 1..Len(file.tables.words) : file.tables.words[i].word = word}

\* C12: for every word key of the index built from the lexicon the exported
\* words table has exactly one row with that word, whose word_display is
\* the written form of the first lemma of the first entry indexed under
\* the word; and the table has no row for any other string.
C12_WordsTableMatchesIndex ==
    pc = "exported" =>
        LET byWord == buildIndex(lexicon).byWord
        IN  /\ \A word \in DOMAIN byWord :
                    /\ Cardinality(WordRows(word)) = 1
                    /\ \A i \in WordRows(word) :
                            file.tables.words[i].word_display
                                = byWord[word][1].lemmas[1].writtenForm
            /\ \A row \in Rows(file.tables.words) : row.word \in DOMAIN byWord

\* two entries of one word, written "ii" and "Ii": one row, displayed "ii"
C12_Witness ==
    /\ pc = "exported"
    /\ Len(file.tables.words) = 1
    /\ file.tables.words[1].word_display = <<105, 105>>
    /\ LET entries == buildIndex(lexicon).byWord[file.tables.words[1].word]
       IN  /\ Len(entries) = 2
           /\ entries[2].lemmas[1].writtenForm = <<73, 105>>

----------------------------------------------------------------------------
(* The primary sense *)

\* C13: every exported word with at least one sense has exactly one
\* word_synsets row with sense_order 0, and its synset_id is the synset of
\* the first sense walked for the word (the first sense, in declaration
\* order, of its first entry that has one).
C13_OrderZeroIsPrimarySense ==
    pc = "exported" =>
        \A w \in Rows(file.tables.words) :
            LET senses == SensesWalked(w.word)
                rows == WordSynsetRows(w.id)
                zero == {i \in 1..Len(rows) : rows[i].sense_order = 0}
            IN  senses # <<>> =>
                    /\ Cardinality(zero) = 1
                    /\ \A i \in zero : rows[i].synset_id = senses[1].synset

\* a word whose senses are on "s2" and then on "s1": order 0 is "s2"
C13_Witness ==
    /\ pc = "exported"
    /\ \E w \in Rows(file.tables.words) :
            /\ Len(SensesWalked(w.word)) = 2
            /\ WordSynsetRows(w.id)
                = <<[word_id |-> w.id, synset_id |-> "s2", sense_order |-> 0],
                    [word_id |-> w.id, synset_id |-> "s1", sense_order |-> 1]>>

----------------------------------------------------------------------------
(* Entries without a lemma *)

NoLemma(entry) == Len(entry.lemmas) = 0

\* the lower-cased first written forms of the entries that have a lemma
CanonicalWords ==
    {toLowerCase(entry.lemmas[1].writtenForm) :
        entry \in {e \in Range(lexicon.lexicalEntries) : ~NoLemma(e)}}

\* C14: an entry without a lemma resolves by its identifier through
\* getLexicalEntry; no result of findWord holds it, no result of findSenses
\* holds a sense of it, every synset of a result of findSynsets is the
\* synset of a sense of an entry that has the word as its lemma, and the
\* keys of the word-keyed maps are canonical words of entries with a lemma.
C14_NoLemmaByIdOnly ==
    /\ Answered("getLexicalEntry") =>
            \A entry \in Range(lexicon.lexicalEntries) :
                (NoLemma(entry) /\ entry.id = call.id) => result = <<entry>>
    /\ Answered("findWord") =>
            \A entry \in Range(result) : ~NoLemma(entry)
    /\ Answered("findSenses") =>
            \A entry \in Range(lexicon.lexicalEntries) :
                NoLemma(entry) => Range(entry.senses) \cap Range(result) = {}
    /\ Answered("findSynsets") =>
            \A synset \in Range(result) :
                \E entry \in Range(lexicon.lexicalEntries) :
                    /\ ~NoLemma(entry)
                    /\ toLowerCase(entry.lemmas[1].writtenForm)
                            = toLowerCase(call.word)
                    /\ \E sense \in Range(entry.senses) :
                            sense.synset = synset.id
    /\ pc \in {"indexed", "answered"} =>
            (DOMAIN index.byWord) \cup (DOMAIN index.sensesByWord)
                \cup (DOMAIN index.synsetsByWord) \subseteq CanonicalWords

\* an entry without a lemma, with senses, fetched by its identifier
C14_Witness ==
    /\ Answered("getLexicalEntry")
    /\ Len(result) = 1
    /\ NoLemma(result[1])
    /\ result[1].senses # <<>>
    /\ DOMAIN index.sensesByWord # {}

----------------------------------------------------------------------------
(* Rows with the same primary key *)

\* the entries the exporter files under a word
Worded(entry) ==
    Len(entry.lemmas) > 0 /\ entry.lemmas[1].writtenForm # <<>>

WordedEntries == {entry \in Range(lexicon.lexicalEntries) : Worded(entry)}

\* the id of the words row of an entry's word
WordIdOf(entry) ==
    (CHOOSE row \in Rows(file.tables.words) :
        row.word = toLowerCase(entry.lemmas[1].writtenForm)).id

\* the synset ids named by a sense of an entry that has a word
SynsetIdsOfWords ==
    UNION {{sense.synset : sense \in Range(entry.senses)} :
            entry \in WordedEntries}

\* the rows the word_synsets stage produces, ignored or not
WordSynsetCandidates ==
    UNION {{[word_id |-> w.id,
             synset_id |-> SensesWalked(w.word)[j].synset,
             sense_order |-> j - 1] : j \in 1..Len(SensesWalked(w.word))} :
            w \in Rows(file.tables.words)}

SynsetRelationCandidates ==
    UNION {{[source_id |-> synset.id, target_id |-> rel.target,
             rel_type |-> rel.relType] :
                rel \in {r \in Range(synset.synsetRelations) :
                            r.target \in SynsetIdsOfWords}} :
            synset \in {x \in Range(lexicon.synsets) :
                            x.id \in SynsetIdsOfWords}}

\* the sense relations from a sense of `entry` to a sense of `other`
SenseRelationsBetween(entry, other) ==
    UNION {UNION {{[source_word_id |-> WordIdOf(entry),
                    source_synset_id |-> sense.synset,
                    target_word_id |-> WordIdOf(other),
                    target_synset_id |-> target.synset,
                    rel_type |-> rel.relType] :
                        target \in {t \in Range(other.senses) :
                                        t.id = rel.target}} :
                    rel \in Range(sense.senseRelations)} :
            sense \in Range(entry.senses)}

SenseRelationCandidates ==
    UNION {SenseRelationsBetween(entry, other) :
            entry \in WordedEntries, other \in WordedEntries}

NoRepeat(table) == Cardinality(Rows(table)) = Len(table)

\* C15: when an export produces several rows with one primary key, it
\* completes without an error and the table holds one row for the key, the
\* first produced: each table holds its candidate rows once, and of the
\* word_synsets candidates of one (word, synset) the one of least order.
C15_FirstRowOfAKeyKept ==
    pc = "exported" =>
        /\ error = ""
        /\ \A name \in DOMAIN file.tables : NoRepeat(file.tables[name])
        /\ Rows(file.tables.word_synsets)
            = {c \in WordSynsetCandidates :
                \A d \in WordSynsetCandidates :
                    (d.word_id = c.word_id /\ d.synset_id = c.synset_id)
                        => d.sense_order >= c.sense_order}
        /\ Rows(file.tables.synset_relations) = SynsetRelationCandidates
        /\ Rows(file.tables.sense_relations) = SenseRelationCandidates

\* two senses of one word on one synset, and one sense relation declared
\* twice: one row each
C15_Witness ==
    /\ pc = "exported"
    /\ Len(file.tables.word_synsets) = 1
    /\ \E w \in Rows(file.tables.words) : Len(SensesWalked(w.word)) = 2
    /\ Len(file.tables.sense_relations) = 1
    /\ \E sense \in Range(SensesOfEntries(lexicon.lexicalEntries)) :
            /\ Len(sense.senseRelations) = 2
            /\ sense.senseRelations[1] = sense.senseRelations[2]

----------------------------------------------------------------------------
(* The order of the stages and what a failed export leaves behind.         *)

Silent == [overwrite |-> TRUE, onProgress |-> FALSE]

\* the six tables of an export of the lexicon that no exception ended,
\* computed stage by stage from an empty database
Exported ==
    LET w2e == WordToEntries([keys |-> <<>>, get |-> EmptyMap],
                             lexicon.lexicalEntries)
        synsetMap == SynsetMap(EmptyMap, lexicon.synsets)
        used == UsedSynsetIds(w2e)
        words == InsertWords([table |-> <<>>, wordIds |-> EmptyMap,
                              wordId |-> 0, events |-> <<>>],
                             Silent, w2e, 0)
        s2ws == SenseToWordSynset(EmptyMap, w2e, words.wordIds, w2e.keys)
    IN  [words |-> words.table,
         synsets |->
            InsertSynsets([table |-> <<>>, events |-> <<>>],
                          Silent, synsetMap, used, 0).table,
         word_synsets |->
            InsertWordSynsets([table |-> <<>>, wsCount |-> 0,
                               events |-> <<>>],
                              Silent, w2e, words.wordIds, w2e.keys).table,
         synset_examples |->
            InsertExamples([table |-> <<>>, exCount |-> 0, events |-> <<>>],
                           Silent, synsetMap, used,
                           TotalExamples(synsetMap, used)).table,
         synset_relations |->
            InsertSynsetRelations([table |-> <<>>, srCount |-> 0,
                                   events |-> <<>>],
                                  Silent, synsetMap, used, used,
                                  TotalSynsetRelations(synsetMap, used)).table,
         sense_relations |->
            InsertSenseRelations([table |-> <<>>, senseRelCount |-> 0,
                                  events |-> <<>>],
                                 Silent, w2e, words.wordIds, s2ws, w2e.keys,
                                 TotalSenseRelations(w2e, s2ws)).table]

\* the position after the COMMIT of stage k
AfterStage(k) == IF k < Len(Stages) THEN Stages[k + 1] ELSE "exported"

\* the stages before k have committed all their rows and no stage after k
\* has written a row, in the state after the step
CommittedBefore(k, complete) ==
    /\ \A j \in 1 .. k - 1 : file'.tables[Stages[j]] = complete[Stages[j]]
    /\ \A j \in k + 1 .. Len(Stages) : file'.tables[Stages[j]] = <<>>

\* C16: during an export the six stages run in the order words, synsets,
\* word_synsets, synset_examples, synset_relations, sense_relations, each in
\* one transaction of its own: the export enters stage k only from the
\* COMMIT of stage k-1 (stage 1 from the opening of the database), a table
\* is written only by the transaction of its stage, and when the export
\* fails during stage k all rows of the stages before k are in the
\* destination and no row of a stage after k is.
C16_StagesInOrder ==
    [][LET complete == Exported
       IN  /\ \A k \in 1 .. Len(Stages) :
                /\ (pc' = Stages[k] /\ pc # pc') =>
                        /\ k > 1 => pc = Stages[k - 1]
                        /\ k = 1 => pc \in {"loaded", "aborted"}
                        /\ CommittedBefore(k, complete)
                        /\ file'.tables[Stages[k]] = <<>>
                /\ pc = Stages[k] =>
                        /\ pc' \in {AfterStage(k), "aborted"}
                        /\ \A j \in 1 .. Len(Stages) :
                                j # k => file'.tables[Stages[j]]
                                            = file.tables[Stages[j]]
                        /\ CommittedBefore(k, complete)
                        /\ pc' = AfterStage(k) =>
                                file'.tables[Stages[k]] = complete[Stages[k]]
           /\ pc' = "exported" => file'.tables = complete
           /\ (pc' = "aborted" /\ pc # pc') => pc \in Range(Stages)]_vars

\* an export failed in the examples stage: three stages are committed with
\* rows in them, part of the examples is written, and the two relation
\* stages, which had rows to write, have written none
C16_Witness ==
    /\ pc = "aborted"
    /\ Len(file.tables.synset_examples) = 1
    /\ \A j \in 1 .. 3 : file.tables[Stages[j]] # <<>>
    /\ \A j \in 5 .. 6 : file.tables[Stages[j]] = <<>>
    /\ LET complete == Exported
       IN  /\ \A j \in 1 .. 3 : file.tables[Stages[j]] = complete[Stages[j]]
           /\ Len(complete.synset_examples) > 1
           /\ \A j \in 5 .. 6 : complete[Stages[j]] # <<>>

----------------------------------------------------------------------------
(* Exporting again after a failed export.                                  *)

NoDuplicateRows(tables) ==
    /\ \A name \in DOMAIN tables : NoRepeat(tables[name])
    /\ \A i, j \in 1 .. Len(tables.words) :
            tables.words[i].word = tables.words[j].word => i = j

\* the export is entered again after a failed one
Retried == pc = "aborted" /\ pc' # pc

\* C17 as stated: after an export has failed partway, exporting the same
\* lexicon again to the same destination without the overwrite option goes
\* ahead (and completes with the tables of an export that never failed).
C17_RetryWithoutOverwriteRuns ==
    [][(Retried /\ ~options'.overwrite)
            => /\ pc' = "words"
               /\ error' = ""]_vars

\* C17: after an export has failed partway, exporting the same lexicon
\* again to the same destination with the overwrite option starts from an
\* empty database, and when it completes the six tables equal those of an
\* export that never failed, with no duplicated row in any table; without
\* the overwrite option the export is refused with an error and leaves the
\* destination as the failed export left it.
C17_RetryNeedsOverwrite ==
    [][/\ Retried =>
            IF options'.overwrite
            THEN /\ pc' = "words"
                 /\ error' = ""
                 /\ file' = [exists |-> TRUE, tables |-> SCHEMA]
            ELSE /\ pc' = "failed"
                 /\ error' = "File already exists"
                 /\ file' = file
       /\ pc' = "exported" =>
            /\ file'.tables = Exported
            /\ NoDuplicateRows(file'.tables)
            /\ error' = ""]_vars

\* an export without the overwrite option was refused over the file an
\* export that failed after its synsets stage had left
C17_Witness ==
    /\ pc = "failed"
    /\ ~options.overwrite
    /\ file.tables.words # <<>>
    /\ file.tables.synsets # <<>>
    /\ file.tables.word_synsets = <<>>
    /\ LET complete == Exported
       IN  /\ file.tables.words = complete.words
           /\ complete.word_synsets # <<>>

----------------------------------------------------------------------------
(* The progress events of one export.                                      *)

PhaseNumber(phase) == CHOOSE k \in 1 .. Len(Stages) : Stages[k] = phase

PhasesOf(evs) == {evs[i].phase : i \in 1 .. Len(evs)}

\* C18: every progress event delivered to the observer has current <=
\* total; of two events of one phase the later has no smaller current; and
\* the phases of successive events follow the order of the stages, no event
\* of an earlier phase coming after one of a later phase.
C18_ProgressInOrder ==
    /\ \A i \in 1 .. Len(events) :
            /\ events[i].phase \in Range(Stages)
            /\ events[i].current <= events[i].total
    /\ \A i, j \in 1 .. Len(events) :
            i < j =>
                /\ PhaseNumber(events[i].phase) <= PhaseNumber(events[j].phase)
                /\ events[i].phase = events[j].phase
                        => events[i].current <= events[j].current

\* a completed export that reported in all six phases, more than once in
\* at least one of them
C18_Witness ==
    /\ pc = "exported"
    /\ PhasesOf(events) = Range(Stages)
    /\ \E i, j \in 1 .. Len(events) :
            /\ i < j
            /\ events[i].phase = events[j].phase
            /\ events[i].current < events[j].current

----------------------------------------------------------------------------
(* The loader (lines 567-839): which WordNet version to use, and the file  *)
(* of that version in the cache directory.                                 *)
(*                                                                         *)
(* A version is a string of decimal digits, here a sequence of digits.  A  *)
(* file name is [stem, version, ext], standing for the three parts written *)
(* one after the other, as in "english-wordnet-" "2024" ".xml".  A         *)
(* directory is the set of its entries [name, isFile], or Missing.         *)

RECURSIVE parseInt(_)
\* parseInt(digits, 10)
parseInt(digits) ==
    IF digits = <<>> THEN 0
    ELSE 10 * parseInt(SubSeq(digits, 1, Len(digits) - 1))
            + digits[Len(digits)]

RECURSIVE toString(_)
\* Number.prototype.toString of a year
toString(n) ==
    IF n < 10 THEN <<n>> ELSE toString(n \div 10) \o <<n % 10>>

BASE_VERSION == <<2, 0, 2, 4>>

getFilename(version) ==
    [stem |-> "english-wordnet-", version |-> version, ext |-> ".xml"]

getDownloadUrl(version) ==
    <<"https://en-word.net/static/", getFilename(version), ".gz">>

Missing == <<>>

existsSync(dir) == dir # Missing

\* existsSync(filePath) && statSync(filePath).isFile()
fileExists(dir, name) ==
    /\ existsSync(dir)
    /\ [name |-> name, isFile |-> TRUE] \in dir.entries

\* a HEAD request to the url is answered with an ok status
urlExists(url) == \E version \in releases : url = getDownloadUrl(version)

\* filename.match(/english-wordnet-(\d{4})\.xml/): the pattern is not
\* anchored, so text before "english-wordnet-" and after ".xml" is allowed
extractVersionFromFilename(name) ==
    IF /\ name.stem \in {"english-wordnet-", "old-english-wordnet-"}
       /\ Len(name.version) = 4
       /\ name.ext \in {".xml", ".xml.gz"}
    THEN Defined(parseInt(name.version))
    ELSE Undefined

Newest(years) == CHOOSE y \in years : \A z \in years : z <= y

Oldest(years) == CHOOSE y \in years : \A z \in years : y <= z

CachedYears(dir) ==
    {extractVersionFromFilename(e.name)[1] :
        e \in {f \in dir.entries :
                    extractVersionFromFilename(f.name) # Undefined}}

\* findCachedVersion with the years sorted oldest first
findCachedVersionOldest(dir) ==
    IF ~existsSync(dir) THEN Undefined
    ELSE IF CachedYears(dir) = {} THEN Undefined
    ELSE Defined(toString(Oldest(CachedYears(dir))))

\* lines 619-629: the newest year among the names of the directory that
\* the pattern matches, as a string; null (Undefined) when there is none
findCachedVersion(dir) ==
    IF ~existsSync(dir) THEN Undefined
    ELSE IF CachedYears(dir) = {} THEN Undefined
    ELSE Defined(toString(Newest(CachedYears(dir))))

RECURSIVE FirstAvailable(_, _)
\* the loops of lines 660-666 and 688-693: the first year from `year` to
\* `last` whose url exists, Undefined when the loop ends without one
FirstAvailable(year, last) ==
    IF year > last THEN Undefined
    ELSE IF urlExists(getDownloadUrl(toString(year)))
         THEN Defined(toString(year))
    ELSE FirstAvailable(year + 1, last)

RECURSIVE LastBeforeGap(_, _)
\* the loop of lines 675-684: stop at the first year whose url does not
\* exist and return the year before it
LastBeforeGap(year, last) ==
    IF year > last THEN toString(last)
    ELSE IF urlExists(getDownloadUrl(toString(year)))
         THEN LastBeforeGap(year + 1, last)
         ELSE toString(year - 1)

\* lines 638-698; Undefined stands for the Error thrown at line 695
findLatestVersion(dir) ==
    LET lastReleasableYear == currentYear - 1
        baseYear == parseInt(BASE_VERSION)
        cachedVersion == findCachedVersion(dir)
    IN  IF cachedVersion # Undefined
        THEN LET cachedYear == parseInt(cachedVersion[1])
                 newer == FirstAvailable(cachedYear + 1, lastReleasableYear)
             IN  IF cachedYear >= lastReleasableYear THEN cachedVersion
                 ELSE IF newer # Undefined THEN newer
                 ELSE cachedVersion
        ELSE IF urlExists(getDownloadUrl(BASE_VERSION))
        THEN Defined(LastBeforeGap(baseYear + 1, lastReleasableYear))
        ELSE FirstAvailable(baseYear + 1, lastReleasableYear)

\* lines 701-718: the directory after the decompressed download is written
downloadWordNet(dir, version) ==
    [entries |-> (IF existsSync(dir) THEN dir.entries ELSE {})
                    \cup {[name |-> getFilename(version), isFile |-> TRUE]}]

\* the download of a version can be written: its url answers, and the
\* path is not taken by a directory
Downloadable(dir, version) ==
    /\ urlExists(getDownloadUrl(version))
    /\ ~ /\ existsSync(dir)
         /\ [name |-> getFilename(version), isFile |-> FALSE] \in dir.entries

----------------------------------------------------------------------------
(* The directories, releases and options the loader is run with.           *)

\* the releases considered are those of BASE_VERSION and of the
\* YearsAhead years after it
YearsAhead == 2

BaseYear == parseInt(BASE_VERSION)

ReleaseYears == BaseYear .. BaseYear + YearsAhead

File(name) == [name |-> name, isFile |-> TRUE]

\* what a cache directory may hold: the files of the release years and of
\* the year before them, a compressed download that was left behind, a
\* directory with the name of a file, and a file that is none of these
CacheEntries ==
    {File(getFilename(toString(y))) :
        y \in BaseYear - 1 .. BaseYear + YearsAhead}
    \cup {File([stem |-> "english-wordnet-",
                version |-> toString(BaseYear + 1), ext |-> ".xml.gz"]),
          [name |-> getFilename(toString(BaseYear + YearsAhead)),
           isFile |-> FALSE],
          File([stem |-> "notes", version |-> <<>>, ext |-> ".txt"])}

\* a name is the name of one entry
CacheDirs ==
    {Missing} \cup
    {[entries |-> es] : es \in {fs \in SUBSET CacheEntries :
        \A e, f \in fs : e.name = f.name => e = f}}

\* LoadOptions (lines 743-752); the cache directory is the one of the model
LoadOptions ==
    [version : {Undefined, Defined(BASE_VERSION),
                Defined(toString(BaseYear + 1))},
     forceDownload : BOOLEAN]

InitLoader ==
    /\ lexicon = <<>>
    /\ pc = "idle"
    /\ index = <<>>
    /\ call = <<>>
    /\ result = <<>>
    /\ options = <<>>
    /\ file = NoFile
    /\ work = <<>>
    /\ events = <<>>
    /\ error = ""
    /\ cacheDir \in CacheDirs
    /\ releases \in SUBSET {toString(y) : y \in ReleaseYears}
    /\ currentYear \in BaseYear .. BaseYear + YearsAhead + 1
    /\ earlier = <<>>

\* a call of findLatestVersion(log, cacheDir)
FindLatestVersion ==
    /\ pc = "idle"
    /\ call' = "findLatestVersion"
    /\ IF findLatestVersion(cacheDir) # Undefined
       THEN /\ result' = findLatestVersion(cacheDir)[1]
            /\ pc' = "returned"
            /\ UNCHANGED error
       ELSE /\ error' = "No WordNet version found"
            /\ pc' = "failed"
            /\ UNCHANGED result
    /\ UNCHANGED <<loader, earlier, lexicon, index, options, file, work,
                   events>>

\* ensureWordNetCached, lines 815-821: the version and the path
EnsureVersion(opts) ==
    /\ pc = "idle"
    /\ call' = "ensureWordNetCached"
    /\ options' = opts
    /\ LET version == IF opts.version # Undefined THEN opts.version
                      ELSE findLatestVersion(cacheDir)
       IN  IF version # Undefined
           THEN /\ work' = [version |-> version[1],
                            cachedPath |-> getFilename(version[1])]
                /\ pc' = "versioned"
                /\ UNCHANGED error
           ELSE /\ error' = "No WordNet version found"
                /\ pc' = "failed"
                /\ UNCHANGED work
    /\ UNCHANGED <<loader, earlier, lexicon, index, result, file, events>>

\* lines 823-827 and 832: the file is not there, or a download is forced
EnsureDownload ==
    /\ pc = "versioned"
    /\ ~fileExists(cacheDir, work.cachedPath) \/ options.forceDownload
    /\ IF Downloadable(cacheDir, work.version)
       THEN /\ cacheDir' = downloadWordNet(cacheDir, work.version)
            /\ result' = [filePath |-> work.cachedPath,
                          version |-> work.version]
            /\ pc' = "returned"
            /\ UNCHANGED error
       ELSE /\ error' = "Failed to download WordNet"
            /\ pc' = "failed"
            /\ UNCHANGED <<cacheDir, result>>
    /\ UNCHANGED <<releases, currentYear, earlier, lexicon, index, call,
                   options, file,
                   work, events>>

\* lines 828-832: the file is there and is used
EnsureCached ==
    /\ pc = "versioned"
    /\ ~(~fileExists(cacheDir, work.cachedPath) \/ options.forceDownload)
    /\ result' = [filePath |-> work.cachedPath, version |-> work.version]
    /\ pc' = "returned"
    /\ UNCHANGED <<loader, earlier, lexicon, index, call, options, file, work,
                   events,
                   error>>

NextLoader ==
    \/ FindLatestVersion
    \/ \E opts \in LoadOptions : EnsureVersion(opts)
    \/ EnsureDownload
    \/ EnsureCached

SpecLoader == InitLoader /\ [][NextLoader]_vars

----------------------------------------------------------------------------
(* Properties of the loader, under SpecLoader.                             *)

\* C19: after ensureWordNetCached(cacheDir) returns, no version having
\* been asked for, the version returned is the newest of the versions of
\* the WordNet files in the cache directory at that moment, and the path
\* returned is the file of that version in the directory.
C19_ReturnsNewestCached ==
    (pc = "returned" /\ call = "ensureWordNetCached"
            /\ options.version = Undefined) =>
        /\ existsSync(cacheDir)
        /\ CachedYears(cacheDir) # {}
        /\ parseInt(result.version) = Newest(CachedYears(cacheDir))
        /\ result.filePath = getFilename(result.version)
        /\ fileExists(cacheDir, result.filePath)

\* the call, not forced to download, returned a version newer than
\* another whose file is in the directory
C19_Witness ==
    /\ pc = "returned"
    /\ call = "ensureWordNetCached"
    /\ options.version = Undefined
    /\ \E y \in CachedYears(cacheDir) : y < parseInt(result.version)
    /\ ~options.forceDownload

\* C20: when findLatestVersion returns version v, no version of a year
\* greater than v and at most the current year - 1 is available at the
\* download url, with a cached version and with an empty cache.
C20_NoNewerAvailable ==
    (pc = "returned" /\ call = "findLatestVersion") =>
        \A y \in parseInt(result) + 1 .. currentYear - 1 :
            ~urlExists(getDownloadUrl(toString(y)))

----------------------------------------------------------------------------
(* The sequence getSynonyms returns.                                       *)

\* the member entries that have a first lemma, with that lemma and the
\* synset they are a member of: the synsets of the word in the order of
\* findSynsets, the members of each in declaration order
SynonymCandidates(word) ==
    LET OfSynset(synset) ==
            LET OfMember(id) ==
                    IF id \in DOMAIN index.entries
                       /\ ~NoLemma(index.entries[id])
                    THEN <<[word |-> index.entries[id].lemmas[1].writtenForm,
                            entry |-> index.entries[id],
                            synset |-> synset]>>
                    ELSE <<>>
            IN  Flatten(Map(OfMember, synset.members))
    IN  Flatten(Map(OfSynset, findSynsets(index, word)))

\* the candidates emitted: those whose lemma differs from the word when
\* both are lower-cased and whose lemma no earlier candidate has
Emitted(candidates, word) ==
    LET kept == {i \in 1 .. Len(candidates) :
                    /\ toLowerCase(candidates[i].word) # toLowerCase(word)
                    /\ \A j \in 1 .. i - 1 :
                            candidates[j].word # candidates[i].word}
    IN  [n \in 1 .. Cardinality(kept) |-> candidates[Nth(kept, n)]]

NonEmptyLemma(candidate) == candidate.word # <<>>

\* C21 as stated: getSynonyms(index, w) is the sequence of the first lemmas
\* of the member entries of the synsets of findSynsets(w), synset by synset
\* and member by member, without the lemmas equal to w when lower-cased and
\* without repeats, each with the entry and synset of its first occurrence.
C21_SynonymsAreEmittedLemmas ==
    Answered("getSynonyms") =>
        result = Emitted(SynonymCandidates(call.word), call.word)

\* C21: the same, for the member entries whose first lemma is not the
\* empty string; a member whose first lemma is empty is passed over.
C21_SynonymsAreNonEmptyLemmas ==
    Answered("getSynonyms") =>
        result = Emitted(SelectSeq(SynonymCandidates(call.word),
                                   NonEmptyLemma),
                         call.word)

\* a word with two synsets that share a member: the member is emitted once,
\* with the first synset; another member is the word itself
C21_Witness ==
    /\ Answered("getSynonyms")
    /\ Len(findSynsets(index, call.word)) = 2
    /\ Len(result) = 1
    /\ result[1].synset = findSynsets(index, call.word)[1]
    /\ \E i, j \in 1 .. Len(SynonymCandidates(call.word)) :
            /\ i < j
            /\ SynonymCandidates(call.word)[i].word = result[1].word
            /\ SynonymCandidates(call.word)[j].word = result[1].word
    /\ \E candidate \in Range(SynonymCandidates(call.word)) :
            toLowerCase(candidate.word) = toLowerCase(call.word)

----------------------------------------------------------------------------
(* The synsets of a word.                                                  *)

\* the identifiers of the synsets of the lexicon
LexiconSynsetIds == {synset.id : synset \in Range(lexicon.synsets)}

\* the synset identifiers the senses of a word refer to, in the order of
\* the senses, as far as the lexicon has a synset of that identifier
SynsetIdsWalked(word) ==
    LET SynsetOf(sense) == sense.synset
        Known(id) == id \in LexiconSynsetIds
    IN  SelectSeq(Map(SynsetOf, SensesWalked(toLowerCase(word))), Known)

\* C22: findSynsets(index, word) holds no two synsets with one identifier,
\* also when the lexicon holds several synset records with one identifier
\* or several senses of the word refer to one synset, and its synsets are
\* in the order in which their identifier was first reached through the
\* senses of the word.
C22_SynsetsOnceInFirstReachedOrder ==
    Answered("findSynsets") =>
        /\ \A i, j \in 1 .. Len(result) :
                result[i].id = result[j].id => i = j
        /\ \A i \in 1 .. Len(result) : result[i] \in Range(lexicon.synsets)
        /\ [i \in 1 .. Len(result) |-> result[i].id]
                = SetAddAll(<<>>, SynsetIdsWalked(call.word))

\* two entries of one word reach the identifier "s1" three times, and the
\* lexicon holds two records with that identifier
C22_Witness ==
    /\ Answered("findSynsets")
    /\ Len(result) = 1
    /\ Len(SynsetIdsWalked(call.word)) = 3
    /\ Cardinality({i \in 1 .. Len(lexicon.synsets) :
                        lexicon.synsets[i].id = result[1].id}) = 2

----------------------------------------------------------------------------
(* The entries and the senses of a word.                                   *)

\* the entries of the lexicon whose canonical word, the lower-cased written
\* form of the first lemma, is the lower-cased word, in lexicon order
EntriesOfWord(word) ==
    LET OfWord(entry) ==
            /\ ~NoLemma(entry)
            /\ toLowerCase(entry.lemmas[1].writtenForm) = toLowerCase(word)
    IN  SelectSeq(lexicon.lexicalEntries, OfWord)

\* C23 as stated: for every word w, findWord(index, w) is the sequence of
\* the lexicon's entries whose canonical word is w, in lexicon order, and
\* findSenses(index, w) is the senses of these entries, entry by entry, in
\* declaration order.
C23_EntriesAndSensesOfWord ==
    /\ Answered("findWord") => result = EntriesOfWord(call.word)
    /\ Answered("findSenses") =>
            result = SensesOfEntries(EntriesOfWord(call.word))

\* C23: the same for every word w that is not the empty string; for the
\* empty string both are empty, whatever the lexicon holds.
C23_EntriesAndSensesOfNonEmptyWord ==
    /\ Answered("findWord") =>
            result = IF call.word = <<>> THEN <<>>
                     ELSE EntriesOfWord(call.word)
    /\ Answered("findSenses") =>
            result = IF call.word = <<>> THEN <<>>
                     ELSE SensesOfEntries(EntriesOfWord(call.word))

\* the senses of a word with two entries: those of the first entry, then
\* that of the second
C23_Witness ==
    /\ Answered("findSenses")
    /\ call.word # <<>>
    /\ Len(EntriesOfWord(call.word)) = 2
    /\ Len(lexicon.lexicalEntries[1].senses) = 2
    /\ Len(result) = 3
    /\ result[3] \in Range(lexicon.lexicalEntries[2].senses)

----------------------------------------------------------------------------
(* What buildIndex and the query operators leave alone.                    *)

IndexMaps == {"synsets", "senses", "entries", "byWord", "sensesByWord",
              "synsetsByWord"}

\* C24: buildIndex and the query operators leave the lexicon they are given
\* as it is; building an index for another lexicon changes no map of the
\* index built before; a query changes no map of the index.
C24_LexiconAndIndexesUntouched ==
    [][/\ (pc = "loaded" /\ pc' = "indexed") =>
                /\ lexicon' = lexicon
                /\ index'.lexicon = lexicon
       /\ (pc = "indexed" /\ pc' = "answered") =>
                /\ lexicon' = lexicon
                /\ index' = index
                /\ earlier' = earlier
       /\ (pc = "indexed" /\ pc' = "rebuilt") =>
                /\ index'.lexicon = lexicon'
                /\ earlier'.lexicon = lexicon
                /\ \A map \in IndexMaps : earlier'[map] = index[map]]_vars

\* a second index was built for a lexicon with other words and synsets
\* than the first, and the first index still has its own
C24_Witness ==
    /\ pc = "rebuilt"
    /\ earlier # <<>>
    /\ earlier.lexicon # lexicon
    /\ DOMAIN earlier.byWord # {}
    /\ DOMAIN earlier.byWord # DOMAIN index.byWord
    /\ earlier.synsets # index.synsets

----------------------------------------------------------------------------
(* The ids of the words.                                                   *)

\* the place of a word among the words, counted from 1 in the order of
\* StringLess
WordRank(word, words) ==
    Cardinality({v \in words : v = word \/ StringLess(v, word)})

\* the word ids are the ranks of the words among `words`: in the words
\* table, in word_synsets and in sense_relations
IdsAreRanks(words) ==
    LET IdOf(entry) ==
            WordRank(toLowerCase(entry.lemmas[1].writtenForm), words)
    IN  /\ Len(file.tables.words) = Cardinality(words)
        /\ {<<row.id, row.word>> : row \in Rows(file.tables.words)}
                = {<<WordRank(word, words), word>> : word \in words}
        /\ {<<row.word_id, row.synset_id>> :
                    row \in Rows(file.tables.word_synsets)}
                = UNION {{<<IdOf(entry), sense.synset>> :
                                sense \in Range(entry.senses)} :
                            entry \in WordedEntries}
        /\ \A row \in Rows(file.tables.sense_relations) :
                \E entry \in WordedEntries, other \in WordedEntries :
                    /\ row.source_word_id = IdOf(entry)
                    /\ row.target_word_id = IdOf(other)
                    /\ \E sense \in Range(entry.senses) :
                        \E rel \in Range(sense.senseRelations) :
                        \E target \in Range(other.senses) :
                            /\ rel.target = target.id
                            /\ rel.relType = row.rel_type
                            /\ sense.synset = row.source_synset_id
                            /\ target.synset = row.target_synset_id

\* C25 as stated: after an export of a lexicon with n distinct lower-cased
\* canonical words the words rows have the ids 1..n, the i-th smallest
\* word has id i, and word_synsets and sense_relations use that id.
C25_IdsRankCanonicalWords ==
    pc = "exported" => IdsAreRanks(CanonicalWords)

\* C25: the same, n being the number of distinct lower-cased canonical
\* words other than the empty string, which gets no row and no id.
C25_IdsRankNonEmptyWords ==
    pc = "exported" => IdsAreRanks(CanonicalWords \ {<<>>})

\* two words, the second entry's word sorting before the first entry's,
\* with a sense relation from the word of id 2 to the word of id 1
C25_Witness ==
    /\ pc = "exported"
    /\ Len(file.tables.words) = 2
    /\ file.tables.words[1].word
            = toLowerCase(lexicon.lexicalEntries[2].lemmas[1].writtenForm)
    /\ \E row \in Rows(file.tables.sense_relations) :
            row.source_word_id = 2 /\ row.target_word_id = 1
    /\ \E row \in Rows(file.tables.word_synsets) : row.word_id = 2

----------------------------------------------------------------------------
(* The rows of the synsets table.                                          *)

\* the synsets of the lexicon that a sense of one of the entries refers to
SynsetsReferencedBy(entries) ==
    {synset \in Range(lexicon.synsets) :
        \E entry \in entries : \E sense \in Range(entry.senses) :
            sense.synset = synset.id}

FirstDefinition(synset) ==
    IF synset.definitions = <<>> THEN "" ELSE synset.definitions[1].inner

\* C26 as stated: after an export the synsets table holds exactly one row
\* for each synset referenced by a sense of an entry that has a canonical
\* word and no other row, and the row carries the part of speech of the
\* synset and its first definition string, or "" without a definition.
C26_RowPerReferencedSynset ==
    pc = "exported" =>
        LET included == SynsetsReferencedBy(
                {e \in Range(lexicon.lexicalEntries) : ~NoLemma(e)})
        IN  /\ Len(file.tables.synsets) = Cardinality(included)
            /\ Rows(file.tables.synsets)
                    = {[id |-> synset.id, pos |-> synset.partOfSpeech,
                        definition |-> FirstDefinition(synset)] :
                            synset \in included}

\* C26: the same for the synsets referenced by a sense of an entry whose
\* canonical word is not the empty string, the row carrying the first
\* definition string with its XML entities decoded.
C26_RowPerSynsetOfNonEmptyWord ==
    pc = "exported" =>
        LET included == SynsetsReferencedBy(WordedEntries)
        IN  /\ Len(file.tables.synsets) = Cardinality(included)
            /\ Rows(file.tables.synsets)
                    = {[id |-> synset.id, pos |-> synset.partOfSpeech,
                        definition |->
                            decodeXmlEntities(FirstDefinition(synset))] :
                            synset \in included}

\* one synset of two is referenced by a word, the other by an entry
\* without a word only, and the row holds the decoded definition
C26_Witness ==
    /\ pc = "exported"
    /\ Len(file.tables.synsets) = 1
    /\ file.tables.synsets[1].id = "s2"
    /\ file.tables.synsets[1].definition = "&"
    /\ \E entry \in Range(lexicon.lexicalEntries) :
            /\ ~Worded(entry)
            /\ \E sense \in Range(entry.senses) : sense.synset = "s1"

----------------------------------------------------------------------------
(* The rows of the synset_examples table.                                  *)

\* the rows of the examples of a synset
ExampleRowsOf(synset) ==
    {row \in Rows(file.tables.synset_examples) : row.synset_id = synset.id}

\* the number of rows of the examples of a synset
ExampleCountOf(synset) ==
    Cardinality({j \in 1..Len(file.tables.synset_examples) :
                    file.tables.synset_examples[j].synset_id = synset.id})

\* C27 as stated: after an export an included synset with n declared
\* examples has exactly n rows in synset_examples, their example_order
\* values being 0..n-1.
C27_RowPerDeclaredExample ==
    pc = "exported" =>
        \A synset \in SynsetsReferencedBy(WordedEntries) :
            /\ ExampleCountOf(synset) = Len(synset.examples)
            /\ {row.example_order : row \in ExampleRowsOf(synset)}
                    = 0..(Len(synset.examples) - 1)

\* C27: after an export an included synset has exactly one row in
\* synset_examples for each declared example whose decoded text is not
\* empty, holding that text and the 0-based declared position of the
\* example as its example_order, and no other row.
C27_RowPerNonEmptyExample ==
    pc = "exported" =>
        \A synset \in SynsetsReferencedBy(WordedEntries) :
            LET stored == {i \in 1..Len(synset.examples) :
                            decodeXmlEntities(synset.examples[i].inner) # ""}
            IN  /\ ExampleCountOf(synset) = Cardinality(stored)
                /\ ExampleRowsOf(synset)
                        = {[synset_id |-> synset.id,
                            example |->
                                decodeXmlEntities(synset.examples[i].inner),
                            example_order |-> i - 1] : i \in stored}

\* an included synset with an empty example between two others: the
\* example after it keeps its declared position
C27_Witness ==
    /\ pc = "exported"
    /\ \E synset \in SynsetsReferencedBy(WordedEntries) :
        \E i \in 1..Len(synset.examples) :
            /\ synset.examples[i].inner = ""
            /\ \E row \in ExampleRowsOf(synset) : row.example_order = i
            /\ \E row \in ExampleRowsOf(synset) : row.example_order = i - 2
            /\ ExampleCountOf(synset) < Len(synset.examples)

----------------------------------------------------------------------------
(* Where the rows of sense_relations come from.                            *)

\* the entries that have a lemma, hence a canonical word
LemmaEntries == {e \in Range(lexicon.lexicalEntries) : ~NoLemma(e)}

\* the words row of that id holds the canonical word of the entry
IsWordOf(id, entry) ==
    \E w \in Rows(file.tables.words) :
        w.id = id /\ w.word = toLowerCase(entry.lemmas[1].writtenForm)

\* C28: after an export every sense_relations row comes from a relation of
\* its type declared on a sense, with the source synset, of an entry of the
\* source word, the target of the relation being a sense, with the target
\* synset, of an entry of the target word; both (word id, synset id) pairs
\* are rows of word_synsets; so no row stands for a relation whose target
\* is a sense of no entry with a canonical word.
C28_SenseRelationRowsHaveSources ==
    pc = "exported" =>
        LET pairs == {<<p.word_id, p.synset_id>> :
                        p \in Rows(file.tables.word_synsets)}
        IN  \A row \in Rows(file.tables.sense_relations) :
                /\ <<row.source_word_id, row.source_synset_id>> \in pairs
                /\ <<row.target_word_id, row.target_synset_id>> \in pairs
                /\ \E entry \in LemmaEntries, other \in LemmaEntries :
                        /\ IsWordOf(row.source_word_id, entry)
                        /\ IsWordOf(row.target_word_id, other)
                        /\ \E sense \in Range(entry.senses) :
                            \E rel \in Range(sense.senseRelations) :
                            \E target \in Range(other.senses) :
                                /\ rel.relType = row.rel_type
                                /\ rel.target = target.id
                                /\ sense.synset = row.source_synset_id
                                /\ target.synset = row.target_synset_id

\* a row between two words with different synsets, in an export of a
\* lexicon where a sense of a word also has a relation to a sense of no
\* entry
C28_Witness ==
    /\ pc = "exported"
    /\ \E row \in Rows(file.tables.sense_relations) :
            /\ row.source_word_id # row.target_word_id
            /\ row.source_synset_id # row.target_synset_id
    /\ \E entry \in WordedEntries : \E sense \in Range(entry.senses) :
        \E rel \in Range(sense.senseRelations) :
            \A other \in Range(lexicon.lexicalEntries) :
                \A target \in Range(other.senses) : target.id # rel.target

----------------------------------------------------------------------------
(* The phases that report progress.                                        *)

\* the number of items an export of the lexicon processes in a phase:
\* words, synset ids, senses of the words, relations between included
\* synsets, relations between senses of the words
ItemsOf(phase) ==
    LET entries == lexicon.lexicalEntries
        synsets == lexicon.synsets
        worded == {k \in 1..Len(entries) : Worded(entries[k])}
        senseIds == UNION {{sense.id : sense \in Range(entries[k].senses)} :
                            k \in worded}
    IN  CASE phase = "words" ->
                Cardinality({toLowerCase(entries[k].lemmas[1].writtenForm) :
                                k \in worded})
          [] phase = "synsets" -> Cardinality(SynsetIdsOfWords)
          [] phase = "word_synsets" ->
                Cardinality({<<k, j>> \in worded \X (1..MaxSenses) :
                                j <= Len(entries[k].senses)})
          [] phase = "synset_relations" ->
                Cardinality(UNION {
                    {<<k, j>> :
                        j \in {i \in 1..Len(synsets[k].synsetRelations) :
                            synsets[k].synsetRelations[i].target
                                \in SynsetIdsOfWords}} :
                    k \in {i \in 1..Len(synsets) :
                            synsets[i].id \in SynsetIdsOfWords}})
          [] phase = "sense_relations" ->
                Cardinality(UNION {UNION {
                    {<<k, j, r>> :
                        r \in {i \in
                            1..Len(entries[k].senses[j].senseRelations) :
                            entries[k].senses[j].senseRelations[i].target
                                \in senseIds}} :
                    j \in 1..Len(entries[k].senses)} : k \in worded})

IndexedPhases == {"words", "synsets"}

CountedPhases == {"word_synsets", "synset_relations", "sense_relations"}

\* C29 as stated: an export given an onProgress observer delivers at least
\* one event for each of the phases words, synsets, word_synsets,
\* synset_relations and sense_relations that processes at least one item.
C29_EveryWorkingPhaseReports ==
    (pc = "exported" /\ options.onProgress) =>
        \A phase \in IndexedPhases \cup CountedPhases :
            ItemsOf(phase) >= 1 => phase \in PhasesOf(events)

\* C29: an export given an onProgress observer delivers at least one event
\* for each of the phases words and synsets that processes at least one
\* item, and for each of the phases word_synsets, synset_relations and
\* sense_relations that processes at least a whole period of items.
C29_PhaseReportsOncePerPeriod ==
    (pc = "exported" /\ options.onProgress) =>
        /\ \A phase \in IndexedPhases :
                ItemsOf(phase) >= 1 => phase \in PhasesOf(events)
        /\ \A phase \in CountedPhases :
                ItemsOf(phase) >= ProgressEvery => phase \in PhasesOf(events)

\* an observed export where words and synsets have fewer items than the
\* period and report, and word_synsets and sense_relations have a whole
\* period and report
C29_Witness ==
    /\ pc = "exported"
    /\ options.onProgress
    /\ ItemsOf("words") = 1
    /\ ItemsOf("synsets") = 1
    /\ ItemsOf("word_synsets") >= ProgressEvery
    /\ ItemsOf("sense_relations") >= ProgressEvery
    /\ {"words", "synsets", "word_synsets", "sense_relations"}
            \subseteq PhasesOf(events)

----------------------------------------------------------------------------
(* The versions findLatestVersion has a ground to return.                  *)

RECURSIVE AskedUntil(_, _, _)
\* the versions a loop from `year` to `last` asks urlExists about, the loop
\* ending at the first year for which urlExists answers `answer`
AskedUntil(year, last, answer) ==
    IF year > last THEN {}
    ELSE {toString(year)}
            \cup IF urlExists(getDownloadUrl(toString(year))) = answer
                 THEN {}
                 ELSE AskedUntil(year + 1, last, answer)

\* the versions whose url one call of findLatestVersion asks urlExists
\* about (lines 661, 671, 677 and 690)
Asked(dir) ==
    LET lastReleasableYear == currentYear - 1
        baseYear == parseInt(BASE_VERSION)
        cachedVersion == findCachedVersion(dir)
    IN  IF cachedVersion # Undefined
        THEN IF parseInt(cachedVersion[1]) >= lastReleasableYear THEN {}
             ELSE AskedUntil(parseInt(cachedVersion[1]) + 1,
                             lastReleasableYear, TRUE)
        ELSE {BASE_VERSION}
                \cup IF urlExists(getDownloadUrl(BASE_VERSION))
                     THEN AskedUntil(baseYear + 1, lastReleasableYear, FALSE)
                     ELSE AskedUntil(baseYear + 1, lastReleasableYear, TRUE)

\* the versions the call found to exist at the download url
ConfirmedToExist(dir) ==
    {version \in Asked(dir) : urlExists(getDownloadUrl(version))}

\* the versions of the names in the cache directory
CachedVersions(dir) ==
    IF existsSync(dir) THEN {toString(y) : y \in CachedYears(dir)} ELSE {}

\* C30: for every cache content, every set of available versions and every
\* current year, findLatestVersion returns a version that is in the cache
\* directory or whose download url answered the existence check during the
\* call, or throws 'No WordNet version found'; it returns no version it
\* has neither found cached nor confirmed to exist.
C30_ReturnsCachedOrConfirmed ==
    /\ (pc = "returned" /\ call = "findLatestVersion") =>
            result \in CachedVersions(cacheDir)
                            \cup ConfirmedToExist(cacheDir)
    /\ (pc = "failed" /\ call = "findLatestVersion") =>
            error = "No WordNet version found"

====
